---- MODULE Spec2Model ----
(***************************************************************************)
(* Excel-to-Markdown converter (converter/core.py and the parsers it       *)
(* drives).                                                                *)
(*                                                                         *)
(*   Spec        ExcelToMarkdownConverter.convert() as a state machine     *)
(*               over one converter object, one input file and one output  *)
(*               path; the converter may be reused or constructed anew.    *)
(*   SpecRef     _parse_cross_sheet_reference applied to formula texts.    *)
(*   SpecDate    TableParser._convert_excel_date applied to day serials.   *)
(*   SpecTables  TableParser.parse_tables applied to sheet grids.          *)
(*   SpecSheet   SheetParser.parse_sheet applied to worksheets.            *)
(***************************************************************************)
EXTENDS Integers, Sequences, FiniteSets, TLC

VARIABLES
    \* ---- environment of convert() ----
    input_file,        \* the workbook stored at BookPath
    out_dir_exists,    \* os.path.exists(os.path.dirname(output_path))
    out_file,          \* content of the file at output_path
    image_files,       \* set of image file names present in output_dir
    now,               \* datetime.now(), in ticks
    \* ---- ExcelToMarkdownConverter object ----
    config,            \* self.config
    workbook,          \* self.workbook
    sheets_data,       \* self.sheets_data
    cross_references,  \* self.cross_references
    image_counter,     \* self.sheet_parser.image_parser.image_counter
    \* ---- one convert() activation ----
    input_path,        \* argument input_path
    pc,                \* phase convert() is in
    idx,               \* sheets of self.workbook.worksheets already visited
    md_content,        \* local md_content
    error,             \* exception that reached the caller
    result,            \* value returned to the caller
    \* ---- history of the run, for the properties ----
    phases,            \* phases this activation has entered, in order
    at_start,          \* environment and object state when convert() was entered
    prev_run,          \* the last activation that returned a result
    \* ---- _parse_cross_sheet_reference ----
    formula,           \* the formula cell handed to the analyzer
    ref_info,          \* what _parse_cross_sheet_reference returned for it
    found_references,  \* what _analyze_references returns for the sheet of that cell
    ref_entry,         \* the entry of the metadata's cross_references for the edge
    \* ---- TableParser._convert_excel_date ----
    serial,            \* the day serial last converted
    excel_date,        \* the datetime returned for it
    prev_serial,       \* the serial converted before it
    prev_date,         \* the datetime returned for prev_serial
    \* ---- TableParser.parse_tables ----
    worksheet,         \* the worksheet handed to parse_tables
    table_config,      \* self.config of the TableParser
    detected,          \* what _detect_tables_by_blank_rows returned
    tables_md,         \* first component of the value of parse_tables
    tables_info,       \* second component of the value of parse_tables
    tpc,               \* "ready" before parse_tables ran, "parsed" after
    \* ---- SheetParser.parse_sheet ----
    drawing,           \* what the worksheet carries besides its cells
    sheet_data,        \* the dictionary parse_sheet returns
    \* ---- _create_anchor ----
    anchor_name,       \* a sheet title
    anchors,           \* the anchors the document and the metadata carry for it
    \* ---- _estimate_chunks ----
    doc_len,           \* len(content) of the merged document
    target_chunk,      \* config['chunk_size']
    chunk_estimate,    \* estimated_chunks of the result and of the metadata
    \* ---- ImageParser ----
    pictures,          \* the images of each sheet, each "ok" or "broken"
    picture_counter,   \* self.image_counter of the parser object
    parsed_pictures,   \* what extract_images returned for each sheet so far
    \* ---- TableParser._format_cell_value ----
    format_cell,       \* the cell whose number format applies
    numeric_value,     \* the numeric value of the cell, in thousandths
    formatted,         \* what _format_cell_value made of the value
    \* ---- HistoryManager ----
    history,           \* self.history, newest record first
    history_file,      \* the records last written to the history file
    history_clock,     \* the number of add_record calls so far, the time of the next record
    history_calls,     \* the number of calls made on the manager
    \* ---- BatchProcessor ----
    batch_disk,        \* what convert() does on each file: "ok" or "broken" (it raises)
    batch_input,       \* the files handed to process_files, or held by the directory
    batch_call,        \* the method called: "files" or "directory"
    batch_results,     \* self.results
    batch_summary,     \* what get_summary returned
    batch_pc           \* "ready", "processed" or "summarised"

vars == << input_file, out_dir_exists, out_file, image_files, now,
           config, workbook, sheets_data, cross_references, image_counter,
           input_path, pc, idx, md_content, error, result, phases, at_start, prev_run,
           formula, ref_info, found_references, ref_entry,
           serial, excel_date, prev_serial, prev_date,
           worksheet, table_config, detected, tables_md, tables_info, tpc,
           drawing, sheet_data, anchor_name, anchors,
           doc_len, target_chunk, chunk_estimate,
           pictures, picture_counter, parsed_pictures,
           format_cell, numeric_value, formatted,
           history, history_file, history_clock, history_calls,
           batch_disk, batch_input, batch_call, batch_results, batch_summary, batch_pc >>

env_vars == << input_file, out_dir_exists, out_file, image_files, now >>
obj_vars == << config, workbook, sheets_data, cross_references, image_counter >>
run_vars == << input_path, pc, idx, md_content, error, result, phases, at_start, prev_run >>
ref_vars   == << formula, ref_info, found_references, ref_entry >>
date_vars  == << serial, excel_date, prev_serial, prev_date >>
table_vars == << worksheet, table_config, detected, tables_md, tables_info, tpc >>
sheet_vars == << drawing, sheet_data >>
anchor_vars == << anchor_name, anchors >>
chunk_vars == << doc_len, target_chunk, chunk_estimate >>
image_vars == << pictures, picture_counter, parsed_pictures >>
format_vars == << format_cell, numeric_value, formatted >>
history_vars == << history, history_file, history_clock, history_calls >>
batch_vars == << batch_disk, batch_input, batch_call, batch_results, batch_summary,
                batch_pc >>
unit_vars == << chunk_vars, image_vars, format_vars, history_vars, batch_vars >>
convert_vars == << env_vars, obj_vars, run_vars >>

(***************************************************************************)
(* Bounds                                                                  *)
(***************************************************************************)
MaxSheets == 2      \* sheets in the input workbook
MaxCalls  == 2      \* convert() calls in one behaviour

(***************************************************************************)
(* Program constants                                                       *)
(***************************************************************************)
DefaultChunkSize == 800

(***************************************************************************)
(* Input workbooks.  A sheet is described by what the sheet assembler      *)
(* sees of it: its title, its sheet_state, the number of tables            *)
(* parse_tables renders from it, the number of its embedded images, and    *)
(* the stage of parse_sheet at which the loader library raises on it       *)
(* ("none": at no stage).                                                  *)
(***************************************************************************)
RaisePoints == {"none", "tables", "images", "shapes"}

\* The titles S1, S2, S3.
SheetName(i) ==
    IF i = 1 THEN << "S", "1" >>
    ELSE IF i = 2 THEN << "S", "2" >>
    ELSE << "S", "3" >>

\* extract_images returns before touching anything when the sheet has no image
\* (image_parser.py:36), so it can raise only on a sheet that has one; it is
\* not reached when parse_tables raises, so such a sheet is described without
\* its images.  A sheet on which extract_shapes raises is described with an
\* image, the one counted before the exception.
SheetsAt(i) ==
    { s \in [ name     : {SheetName(i)},
              hidden   : BOOLEAN,
              tables   : {1},
              images   : 0..1,
              raises   : RaisePoints,
              formulas : { <<>> } ] :
        /\ s.raises = "images" => s.images > 0
        /\ s.raises = "tables" => s.images = 0
        /\ s.raises = "shapes" => s.images > 0 }

RECURSIVE WorkbooksOfLen(_)
WorkbooksOfLen(n) ==
    IF n = 0 THEN { <<>> }
    ELSE { Append(w, s) : w \in WorkbooksOfLen(n - 1), s \in SheetsAt(n) }

Workbooks == UNION { WorkbooksOfLen(n) : n \in 1..MaxSheets }

\* The paths a caller passes as input_path: the workbook, and a path at which
\* load_workbook finds none (missing, truncated, not a zip archive, ...).
BookPath   == "book.xlsx"
BrokenPath == "broken.xlsx"
InputPaths == { BookPath, BrokenPath }

Configs == [ chunk_size : {0, DefaultChunkSize}, include_hidden : BOOLEAN ]

EmptyMd    == [ sheets_count |-> 0, time |-> 0, toc |-> <<>>, sections |-> <<>> ]
NoWorkbook == [ loaded |-> FALSE, sheets |-> <<>> ]
NoFile     == [ exists |-> FALSE, md |-> EmptyMd ]
NoMetadata == [ generated |-> FALSE, total_sheets |-> 0, sheets |-> <<>>,
                section_in_md |-> <<>>, total_tables |-> 0, total_images |-> 0, cross_references |-> <<>> ]
NoResult   == [ returned |-> FALSE, sheets_count |-> 0, tables_count |-> 0,
                images_count |-> 0, shapes_count |-> 0, metadata |-> NoMetadata ]
NoRun      == [ done |-> FALSE, config |-> [ chunk_size |-> DefaultChunkSize,
                                             include_hidden |-> FALSE ],
                md |-> EmptyMd ]

PhaseOrder == << "Loading", "PerSheetProcessing", "ReferenceAnalysis", "Merging",
                 "Writing", "MetadataGeneration", "Done" >>

RECURSIVE SumOver(_, _)
SumOver(seq, field) ==
    IF seq = <<>> THEN 0
    ELSE seq[1][field] + SumOver(Tail(seq), field)

(***************************************************************************)
(* SheetParser.parse_sheet                                                 *)
(***************************************************************************)
TableBlock     == [ kind |-> "table",   ref |-> 0 ]
WarningBlock   == [ kind |-> "warning", ref |-> 0 ]
ImageBlock(k)  == [ kind |-> "image",   ref |-> k ]

\* The loop of extract_images without its try/except: the exception of an
\* image ends the loop and reaches parse_sheet.
RECURSIVE ExtractPropagating(_, _)
ExtractPropagating(images, counter) ==
    IF images = << >>
    THEN [ md |-> << >>, counter |-> counter, files |-> {}, raised |-> FALSE ]
    ELSE IF Head(images) = "ok"
    THEN LET rest == ExtractPropagating(Tail(images), counter + 1)
         IN  [ md      |-> IF rest.raised THEN << >>
                           ELSE << ImageBlock(counter + 1) >> \o rest.md,
               counter |-> rest.counter,
               files   |-> { counter + 1 } \cup rest.files,
               raised  |-> rest.raised ]
    ELSE [ md |-> << >>, counter |-> counter + 1, files |-> {}, raised |-> TRUE ]

\* The loop of ImageParser.extract_images over the images of a sheet, each
\* "ok" or "broken" (decoding or saving it raises).  Every image takes the
\* next value of the counter of the parser object; the value names the file
\* and the reference of an image that was saved, and the exception of a
\* broken image is caught inside the loop.
RECURSIVE ExtractEach(_, _)
ExtractEach(images, counter) ==
    IF images = << >>
    THEN [ md |-> << >>, counter |-> counter, files |-> {}, raised |-> FALSE ]
    ELSE LET rest == ExtractEach(Tail(images), counter + 1)
         IN  IF Head(images) = "ok"
             THEN [ md      |-> << ImageBlock(counter + 1) >> \o rest.md,
                    counter |-> rest.counter,
                    files   |-> { counter + 1 } \cup rest.files,
                    raised  |-> rest.raised ]
             ELSE rest

\* ImageParser.extract_images on a sheet all of whose images can be saved.
extract_images(sheet, counter) ==
    LET each == ExtractEach([ k \in 1..sheet.images |-> "ok" ], counter)
    IN  [ md |-> each.md, counter |-> each.counter, files |-> each.files ]

\* The fragment of a sheet, the counter after it and the image files it wrote.
\* An exception of any stage is caught at the sheet boundary: the content
\* becomes the warning line, the counts set before the exception stay.
parse_sheet(sheet, counter) ==
    LET empty   == [ name |-> sheet.name, content |-> <<>>,
                     tables_count |-> 0, images_count |-> 0, shapes_count |-> 0 ]
        tables  == [ k \in 1..sheet.tables |-> TableBlock ]
        imgs    == extract_images(sheet, counter)
        withT   == [ empty EXCEPT !.tables_count = Len(tables) ]
        withI   == [ withT EXCEPT !.images_count = Len(imgs.md) ]
    IN  CASE sheet.raises = "tables" ->
               [ data    |-> [ empty EXCEPT !.content = << WarningBlock >> ],
                 counter |-> counter, files |-> {} ]
          [] sheet.raises = "images" ->
               [ data    |-> [ withT EXCEPT !.content = << WarningBlock >> ],
                 counter |-> counter, files |-> {} ]
          [] sheet.raises = "shapes" ->
               [ data    |-> [ withI EXCEPT !.content = << WarningBlock >> ],
                 counter |-> imgs.counter, files |-> imgs.files ]
          [] OTHER ->
               [ data    |-> [ withI EXCEPT !.content = tables \o imgs.md ],
                 counter |-> imgs.counter, files |-> imgs.files ]

(***************************************************************************)
(* ExcelToMarkdownConverter._parse_cross_sheet_reference                   *)
(*                                                                         *)
(* A text is a sequence of one-character strings.  The operators below     *)
(* compute what re.findall returns first for the pattern                   *)
(*   (['\"]?)([^'\"!]+)\1!([A-Z]+[0-9]+(?::[A-Z]+[0-9]+)?)                 *)
(* the leftmost start position at which the pattern matches, and at that   *)
(* position the first match in the order of the backtracking search        *)
(* (greedy quantifiers: longest repetition first).                         *)
(***************************************************************************)
Upper  == { "A", "B", "C", "D", "E", "F", "G", "H", "I", "J", "K", "L", "M",
            "N", "O", "P", "Q", "R", "S", "T", "U", "V", "W", "X", "Y", "Z" }
Lower  == { "a", "b", "c", "d", "e", "f", "g", "h", "i", "j", "k", "l", "m",
            "n", "o", "p", "q", "r", "s", "t", "u", "v", "w", "x", "y", "z" }
Digits == { "0", "1", "2", "3", "4", "5", "6", "7", "8", "9" }
Quotes == { "'", "\"" }
Alphabet  == Upper \cup Lower \cup Digits \cup Quotes
                 \cup { "=", "(", ")", "!", ":", "+", "-", ",", " ", "$" }
\* [^'\"!]
NameChars == Alphabet \ (Quotes \cup { "!" })

Max(S) == CHOOSE x \in S : \A y \in S : y <= x
Min(S) == CHOOSE x \in S : \A y \in S : x <= y

\* Length of the longest run of characters of class that starts at text[i].
RECURSIVE RunLen(_, _, _)
RunLen(text, i, class) ==
    IF i <= Len(text) /\ text[i] \in class
    THEN 1 + RunLen(text, i + 1, class)
    ELSE 0

CharAt(text, i) == IF i >= 1 /\ i <= Len(text) THEN text[i] ELSE ""

\* [A-Z]+[0-9]+ at text[i]: the position after the match, 0 when there is none.
CellEnd(text, i) ==
    LET letters == { l \in 1..RunLen(text, i, Upper) :
                        RunLen(text, i + l, Digits) >= 1 }
    IN  IF letters = {} THEN 0
        ELSE i + Max(letters) + RunLen(text, i + Max(letters), Digits)

\* [A-Z]+[0-9]+(?::[A-Z]+[0-9]+)? at text[i]: the position after the match.
RangeEnd(text, i) ==
    LET e == CellEnd(text, i)
    IN  IF e = 0 THEN 0
        ELSE IF CharAt(text, e) = ":" /\ CellEnd(text, e + 1) # 0
             THEN CellEnd(text, e + 1)
             ELSE e

NoMatch == [ ok |-> FALSE, sheet |-> << >>, cell |-> << >> ]

\* The match with group 1 = quote (the empty text or a quote character) and
\* group 2 starting at text[start].
MatchFrom(text, quote, start) ==
    LET skip    == IF quote = "" THEN 0 ELSE 1
        closes(n) == quote = "" \/ CharAt(text, start + n) = quote
        lens    == { n \in 1..RunLen(text, start, NameChars) :
                        /\ closes(n)
                        /\ CharAt(text, start + n + skip) = "!"
                        /\ RangeEnd(text, start + n + skip + 1) # 0 }
        n       == Max(lens)
        cell    == start + n + skip + 1
    IN  IF lens = {} THEN NoMatch
        ELSE [ ok    |-> TRUE,
               sheet |-> SubSeq(text, start, start + n - 1),
               cell  |-> SubSeq(text, cell, RangeEnd(text, cell) - 1) ]

\* The match that starts at text[i]: (['\"]?) takes the quote first.
MatchAt(text, i) ==
    IF text[i] \in Quotes /\ MatchFrom(text, text[i], i + 1).ok
    THEN MatchFrom(text, text[i], i + 1)
    ELSE MatchFrom(text, "", i)

\* matches[0] of re.findall(pattern, formula)
FirstMatch(text) ==
    LET starts == { i \in 1..Len(text) : MatchAt(text, i).ok }
    IN  IF starts = {} THEN NoMatch ELSE MatchAt(text, Min(starts))

NoEdge == [ status |-> "no_edge", from_sheet |-> << >>, from_cell |-> << >>,
            to_sheet |-> << >>, to_cell |-> << >>, formula |-> << >> ]
Pending == [ NoEdge EXCEPT !.status = "pending" ]

_parse_cross_sheet_reference(text, from_sheet, from_cell) ==
    LET m == FirstMatch(text)
    IN  IF m.ok
        THEN [ status |-> "edge", from_sheet |-> from_sheet, from_cell |-> from_cell,
               to_sheet |-> m.sheet, to_cell |-> m.cell, formula |-> text ]
        ELSE NoEdge

\* The body of the loops of _analyze_references for one formula cell.
AnalyzeCell(text, from_sheet, from_cell) ==
    IF \E i \in 1..Len(text) : text[i] = "!"
    THEN _parse_cross_sheet_reference(text, from_sheet, from_cell)
    ELSE NoEdge

(***************************************************************************)
(* Formula texts handed to the analyzer.  A formula is kept with the sheet *)
(* name and the cell or range of its first sheet-qualified reference       *)
(* (empty when it has none).                                               *)
(***************************************************************************)
Apostrophe == << "'" >>

\* A reference to a sheet as a formula spells it: a name without a space bare
\* or quoted, a name with a space quoted.
SheetTokens ==
    { [ name |-> << "S", "h", "e", "e", "t", "1" >>, quote |-> << >> ],
      [ name |-> << "S", "h", "e", "e", "t", "1" >>, quote |-> Apostrophe ],
      [ name |-> << "D", "a", "t", "a" >>, quote |-> << >> ],
      [ name |-> << "S", "a", "l", "e", "s", " ", "Q", "1" >>, quote |-> Apostrophe ] }

CellTokens == { << "A", "1" >>, << "B", "2" >>, << "A", "1", ":", "A", "1", "0" >>,
                << "$", "A", "$", "1" >> }

\* What stands before and after the first reference.
FormulaShapes ==
    { [ before |-> << "=" >>, after |-> << >> ],
      [ before |-> << "=", "S", "U", "M", "(" >>, after |-> << ")" >> ],
      [ before |-> << "=", "-" >>, after |-> << >> ],
      [ before |-> << "=", "A", "1", "+" >>, after |-> << >> ],
      [ before |-> << "=" >>, after |-> << "+", "S", "h", "e", "e", "t", "2", "!", "B", "1" >> ],
      [ before |-> << "=", "S", "U", "M", "(" >>, after |-> << ",", "S", "h", "e", "e", "t", "2", "!", "B", "1", ")" >> ],
      [ before |-> << "=", "A", "V", "E", "R", "A", "G", "E", "(" >>,
        after  |-> << ")" >> ],
      [ before |-> << "=", "C", "O", "U", "N", "T", "(" >>,
        after  |-> << ")" >> ],
      [ before |-> << "=", "V", "L", "O", "O", "K", "U", "P", "(", "A", "1", "," >>,
        after  |-> << ",", "2", ")" >> ],
      [ before |-> << "=", "H", "L", "O", "O", "K", "U", "P", "(", "A", "1", "," >>,
        after  |-> << ",", "2", ")" >> ],
      [ before |-> << "=", "I", "F", "(" >>,
        after  |-> << ",", "1", ",", "0", ")" >> ],
      [ before |-> << "=", "S", "U", "M", "I", "F", "(" >>,
        after  |-> << ",", "1", ")" >> ],
      [ before |-> << "=", "C", "O", "U", "N", "T", "I", "F", "(" >>,
        after  |-> << ",", "1", ")" >> ],
      [ before |-> << "=", "A", "V", "E", "R", "A", "G", "E", "I", "F", "(" >>,
        after  |-> << ",", "1", ")" >> ],
      [ before |-> << "=", "I", "F", "(", "S", "U", "M", "(" >>,
        after  |-> << ")", ",", "1", ",", "0", ")" >> ],
      [ before |-> << "=", "I", "F", "(", "C", "O", "U", "N", "T", "(" >>,
        after  |-> << ")", ",", "1", ",", "0", ")" >> ],
      [ before |-> << "=", "s", "u", "m", "(" >>,
        after  |-> << ")" >> ],
      [ before |-> << "=", "A", "V", "G", "(" >>,
        after  |-> << ")" >> ] }

CrossSheetFormulas ==
    { [ text     |-> f.before \o t.quote \o t.name \o t.quote \o << "!" >>
                       \o c \o f.after,
        to_sheet |-> t.name,
        to_cell  |-> c ] : f \in FormulaShapes, t \in SheetTokens, c \in CellTokens }

LocalFormulas ==
    { [ text |-> << "=", "A", "1", "+", "B", "2" >>, to_sheet |-> << >>, to_cell |-> << >> ],
      [ text |-> << "=", "S", "U", "M", "(", "A", "1", ":", "A", "1", "0", ")" >>, to_sheet |-> << >>, to_cell |-> << >> ] }

Formulas == CrossSheetFormulas \cup LocalFormulas

\* The two formulas of the specification's example.
SumSheet1Formula ==
    [ text |-> << "=", "S", "U", "M", "(", "S", "h", "e", "e", "t", "1", "!", "A", "1", ":", "A", "1", "0", ")" >>,
      to_sheet |-> << "S", "h", "e", "e", "t", "1" >>, to_cell |-> << "A", "1", ":", "A", "1", "0" >> ]
SalesQ1Formula ==
    [ text |-> << "=", "'", "S", "a", "l", "e", "s", " ", "Q", "1", "'", "!", "B", "2" >>,
      to_sheet |-> << "S", "a", "l", "e", "s", " ", "Q", "1" >>, to_cell |-> << "B", "2" >> ]

HasReference(f) == f.to_sheet # << >>

NoEntry == [ from |-> << >>, to |-> << >>, type |-> "" ]

IdleRef ==
    /\ formula = SumSheet1Formula
    /\ ref_info = Pending
    /\ found_references = << >>
    /\ ref_entry = NoEntry

\* A formula cell waits for _analyze_references.
FormulaCell ==
    /\ formula \in Formulas
    /\ ref_info = Pending
    /\ found_references = << >>
    /\ ref_entry = NoEntry

(***************************************************************************)
(* TableParser._convert_excel_date                                         *)
(*                                                                         *)
(* datetime(y, m, d) + timedelta(days=n) is computed on the proleptic      *)
(* Gregorian calendar: a date is counted in days and counted back.         *)
(***************************************************************************)
MaxSerial == 70     \* day serials 0..MaxSerial are converted

\* The serials the specification names.
NamedSerials == { 1, 59, 60, 61, 36526 }
Serials == 0..MaxSerial \cup NamedSerials

Date(y, m, d) == [ year |-> y, month |-> m, day |-> d ]
NoDate == Date(0, 0, 0)

\* Days from 0000-03-01 to the date.
DayNumber(date) ==
    LET y   == IF date.month <= 2 THEN date.year - 1 ELSE date.year
        era == y \div 400
        yoe == y - era * 400
        mp  == IF date.month > 2 THEN date.month - 3 ELSE date.month + 9
        doy == (153 * mp + 2) \div 5 + date.day - 1
        doe == yoe * 365 + yoe \div 4 - yoe \div 100 + doy
    IN  era * 146097 + doe

\* The date that many days after 0000-03-01.
DateOfDayNumber(z) ==
    LET era == z \div 146097
        doe == z - era * 146097
        yoe == (doe - doe \div 1460 + doe \div 36524 - doe \div 146096) \div 365
        doy == doe - (365 * yoe + yoe \div 4 - yoe \div 100)
        mp  == (5 * doy + 2) \div 153
        d   == doy - (153 * mp + 2) \div 5 + 1
        m   == IF mp < 10 THEN mp + 3 ELSE mp - 9
        y   == yoe + era * 400
    IN  Date(IF m <= 2 THEN y + 1 ELSE y, m, d)

\* datetime + timedelta(days=n)
PlusDays(date, n) == DateOfDayNumber(DayNumber(date) + n)

_convert_excel_date(value) ==
    IF value > 59 THEN PlusDays(Date(1899, 12, 30), value)
    ELSE IF value >= 1 THEN PlusDays(Date(1899, 12, 31), value)
    ELSE PlusDays(Date(1900, 1, 1), value)

IdleDate ==
    /\ serial = 0
    /\ excel_date = NoDate
    /\ prev_serial = 0
    /\ prev_date = NoDate

\* A numeric cell with a date format is rendered.
ConvertDate ==
    \E value \in Serials :
        /\ serial' = value
        /\ excel_date' = _convert_excel_date(value)
        /\ prev_serial' = serial
        /\ prev_date' = excel_date

(***************************************************************************)
(* TableParser: detection and rendering of the tables of a sheet           *)
(***************************************************************************)
MaxRows     == 5    \* rows of the used range
MaxCols     == 2    \* columns of the used range
MaxCells    == 6    \* cells of the used range
MaxFirstRow == 2    \* first row of the used range

\* A cell value: None, a string of white space only, a string with text.
CellValues == { "null", "blank", "text" }

\* A formula cell (data_type 'f'): its value is the formula text in the
\* formula view, and in the computed-value view None ("formula") or the
\* cached result ("formula_cached").
FormulaCells == { "formula", "formula_cached" }
FormulaOf(v) == IF v = "formula" THEN "=A1*2" ELSE "=SUM(B1:B2)"

Range(r1, r2, c1, c2) ==
    [ min_row |-> r1, max_row |-> r2, min_col |-> c1, max_col |-> c2 ]

\* sheet.min_row, max_row, min_column, max_column and sheet.dimensions
MaxRowOf(sh) == sh.min_row + Len(sh.rows) - 1
MaxColOf(sh) == sh.min_col + Len(sh.rows[1]) - 1
dimensions(sh) == Range(sh.min_row, MaxRowOf(sh), sh.min_col, MaxColOf(sh))
A1A1 == Range(1, 1, 1, 1)

\* sheet.cell(row, column).value
CellValue(sh, r, c) ==
    IF /\ r >= sh.min_row /\ r <= MaxRowOf(sh)
       /\ c >= sh.min_col /\ c <= MaxColOf(sh)
    THEN sh.rows[r - sh.min_row + 1][c - sh.min_col + 1]
    ELSE "null"

\* cell_value is not None and str(cell_value).strip() != ""
HasData(sh, r, c) == CellValue(sh, r, c) \notin { "null", "blank" }

RowIsBlank(sh, r) ==
    \A c \in sh.min_col..MaxColOf(sh) : ~HasData(sh, r, c)

\* blank_rows of _detect_tables_by_blank_rows, from row r on
RECURSIVE BlankRowsFrom(_, _)
BlankRowsFrom(sh, r) ==
    IF r > MaxRowOf(sh) THEN << >>
    ELSE (IF RowIsBlank(sh, r) THEN << r >> ELSE << >>) \o BlankRowsFrom(sh, r + 1)

\* The loop of _detect_tables_by_blank_rows with current_start_row set to the
\* blank row itself.
RECURSIVE SplitKeepingBlankRow(_, _, _, _)
SplitKeepingBlankRow(sh, blank_rows, current_start_row, table_ranges) ==
    IF blank_rows = << >>
    THEN [ table_ranges |-> table_ranges, current_start_row |-> current_start_row ]
    ELSE LET blank_row == Head(blank_rows)
         IN  SplitKeepingBlankRow(sh, Tail(blank_rows), blank_row,
                 IF blank_row > current_start_row
                 THEN Append(table_ranges,
                             Range(current_start_row, blank_row - 1,
                                   sh.min_col, MaxColOf(sh)))
                 ELSE table_ranges)

\* The loop over blank_rows: table_ranges and current_start_row after it.
RECURSIVE SplitAtBlankRows(_, _, _, _)
SplitAtBlankRows(sh, blank_rows, current_start_row, table_ranges) ==
    IF blank_rows = << >>
    THEN [ table_ranges |-> table_ranges, current_start_row |-> current_start_row ]
    ELSE LET blank_row == Head(blank_rows)
         IN  SplitAtBlankRows(sh, Tail(blank_rows), blank_row + 1,
                 IF blank_row > current_start_row
                 THEN Append(table_ranges,
                             Range(current_start_row, blank_row - 1,
                                   sh.min_col, MaxColOf(sh)))
                 ELSE table_ranges)

RangeHasData(sh, range) ==
    \E r \in range.min_row..range.max_row, c \in range.min_col..range.max_col :
        HasData(sh, r, c)

RECURSIVE ValidRanges(_, _)
ValidRanges(sh, table_ranges) ==
    IF table_ranges = << >> THEN << >>
    ELSE (IF RangeHasData(sh, Head(table_ranges))
          THEN << Head(table_ranges) >> ELSE << >>)
         \o ValidRanges(sh, Tail(table_ranges))

_detect_tables_by_blank_rows(sh) ==
    LET blank_rows == BlankRowsFrom(sh, sh.min_row)
        split      == SplitAtBlankRows(sh, blank_rows, sh.min_row, << >>)
        all        == IF split.current_start_row <= MaxRowOf(sh)
                      THEN Append(split.table_ranges,
                                  Range(split.current_start_row, MaxRowOf(sh),
                                        sh.min_col, MaxColOf(sh)))
                      ELSE split.table_ranges
        valid      == ValidRanges(sh, all)
    IN  IF dimensions(sh) = A1A1 THEN << >>
        ELSE IF blank_rows = << >> THEN << dimensions(sh) >>
        ELSE IF valid = << >> THEN << dimensions(sh) >>
        ELSE valid

\* cell_text without the substitution "if value is None: value = formula".
CellTextOfValueView(v) == CASE v = "null"           -> ""
                            [] v = "blank"          -> " "
                            [] v = "formula"        -> ""
                            [] v = "formula_cached" -> "42"
                            [] OTHER                -> "x"

\* cell_text of a cell of the grid: the value of the computed-value view,
\* the formula text for a formula cell whose computed value is None, "" for
\* None.
CellText(v) == CASE v = "null"           -> ""
                 [] v = "blank"          -> " "
                 [] v = "formula"        -> FormulaOf(v)
                 [] v = "formula_cached" -> "42"
                 [] OTHER                -> "x"

\* formulas of convert_range_to_markdown in the order _generate_formula_notes
\* lists them (sorted by row, then column): one note per formula cell.
RECURSIVE FormulaNotes(_, _, _, _)
FormulaNotes(sh, range, r, c) ==
    IF r > range.max_row THEN << >>
    ELSE IF c > range.max_col THEN FormulaNotes(sh, range, r + 1, range.min_col)
    ELSE (IF CellValue(sh, r, c) \in FormulaCells
          THEN << [ row |-> r, col |-> c, formula |-> FormulaOf(CellValue(sh, r, c)) ] >>
          ELSE << >>)
         \o FormulaNotes(sh, range, r, c + 1)

\* if formulas and self.config.get('show_formulas', True)
NotesOf(sh, range) ==
    IF table_config.show_formulas
    THEN FormulaNotes(sh, range, range.min_row, range.min_col)
    ELSE << >>

EmptyTable == [ empty |-> TRUE, headers |-> << >>, body |-> << >>, notes |-> << >> ]

\* df.replace('', None).dropna(how='all', axis=0)
RECURSIVE DropNARows(_)
DropNARows(data) ==
    IF data = << >> THEN << >>
    ELSE (IF \E j \in 1..Len(Head(data)) : Head(data)[j] # ""
          THEN << Head(data) >> ELSE << >>)
         \o DropNARows(Tail(data))

RECURSIVE KeepCols(_, _, _)
KeepCols(row, cols, c) ==
    IF c > Len(row) THEN << >>
    ELSE (IF c \in cols THEN << row[c] >> ELSE << >>) \o KeepCols(row, cols, c + 1)

\* convert_range_to_markdown: the cell texts of the range; '' replaced by None;
\* rows, then columns, that are NA throughout dropped; nothing left: "";
\* else the first row promoted to the header (detect_header).
convert_range_to_markdown(sh, range) ==
    LET data == [ i \in 1..(range.max_row - range.min_row + 1) |->
                    [ j \in 1..(range.max_col - range.min_col + 1) |->
                        CellText(CellValue(sh, range.min_row + i - 1,
                                               range.min_col + j - 1)) ] ]
        rows == DropNARows(data)
        cols == { j \in 1..(range.max_col - range.min_col + 1) :
                    \E i \in 1..Len(rows) : rows[i][j] # "" }
        df   == [ i \in 1..Len(rows) |-> KeepCols(rows[i], cols, 1) ]
    IN  IF Len(rows) = 0 \/ cols = {} THEN EmptyTable
        ELSE [ empty |-> FALSE, headers |-> df[1], body |-> Tail(df),
               notes |-> NotesOf(sh, range) ]

\* The ranges parse_tables renders: the declared tables, else the detected
\* ones unless the used range is "A1:A1".
RangesToRender(sh) ==
    IF sh.tables # << >> THEN sh.tables
    ELSE IF dimensions(sh) # A1A1 THEN _detect_tables_by_blank_rows(sh)
    ELSE << >>

RECURSIVE RenderAll(_, _, _)
RenderAll(sh, ranges, k) ==
    IF k > Len(ranges) THEN << >>
    ELSE LET md_table == convert_range_to_markdown(sh, ranges[k])
         IN  (IF md_table.empty THEN << >>
              ELSE << [ index |-> k, range |-> ranges[k],
                        type  |-> IF sh.tables # << >> THEN "excel_table"
                                  ELSE "auto_detected",
                        markdown |-> md_table ] >>)
             \o RenderAll(sh, ranges, k + 1)

\* parse_tables without its else branch: only declared tables are rendered.
ParseDeclaredTables(sh) == RenderAll(sh, sh.tables, 1)

\* tables_info of parse_tables; tables_md is its markdown column.
parse_tables(sh) == RenderAll(sh, RangesToRender(sh), 1)

(***************************************************************************)
(* Sheets handed to parse_tables                                           *)
(***************************************************************************)
MaxFormulaRows  == 2    \* rows of a used range with formula cells
MaxFormulaCols  == 2    \* columns of a used range with formula cells
MaxFormulaCells == 4    \* cells of a used range with formula cells

FormulaGrids ==
    UNION { UNION { [ 1..r -> [ 1..c -> CellValues \cup FormulaCells ] ] :
                      c \in { k \in 1..MaxFormulaCols : r * k <= MaxFormulaCells } } :
              r \in 1..MaxFormulaRows }

\* Sheets with formula cells, their used range starting at A1.
FormulaSheets ==
    { [ min_row |-> 1, min_col |-> 1, rows |-> g, tables |-> t ] :
        g \in { f \in FormulaGrids :
                  \E i \in 1..Len(f), j \in 1..Len(f[1]) : f[i][j] \in FormulaCells },
        t \in { "none", "whole" } }

TableConfigs == [ show_formulas : BOOLEAN, extract_images : { TRUE } ]

Grids ==
    UNION { UNION { [ 1..r -> [ 1..c -> CellValues ] ] :
                      c \in { k \in 1..MaxCols : r * k <= MaxCells } } :
              r \in 1..MaxRows }

\* A sheet without declared tables, or with one declared over its used range.
GridSheets ==
    { [ min_row |-> first, min_col |-> 1, rows |-> g, tables |-> t ] :
        first \in 1..MaxFirstRow, g \in Grids, t \in { "none", "whole" } }

DeclaredTables(sh) ==
    IF sh.tables = "whole" THEN << dimensions(sh) >>
    ELSE IF sh.tables = "first_row"
    THEN << Range(sh.min_row, sh.min_row, sh.min_col, MaxColOf(sh)) >>
    ELSE << >>

EmptySheet == [ min_row |-> 1, min_col |-> 1, rows |-> << << "null" >> >>,
                tables |-> << >> ]

IdleTables ==
    /\ worksheet = EmptySheet
    /\ table_config = [ show_formulas |-> TRUE, extract_images |-> TRUE ]
    /\ detected = << >>
    /\ tables_md = << >>
    /\ tables_info = << >>
    /\ tpc = "ready"

\* A worksheet waits for parse_tables.
LoadedSheet ==
    /\ \E s \in GridSheets \cup FormulaSheets :
          worksheet = [ s EXCEPT !.tables = DeclaredTables(s) ]
    /\ table_config \in TableConfigs
    /\ detected = << >>
    /\ tables_md = << >>
    /\ tables_info = << >>
    /\ tpc = "ready"

\* tables_md, tables_info = self.table_parser.parse_tables(sheet, sheet_with_values)
ParseTables ==
    /\ tpc = "ready"
    /\ detected' = IF worksheet.tables = << >> /\ dimensions(worksheet) # A1A1
                   THEN _detect_tables_by_blank_rows(worksheet)
                   ELSE << >>
    /\ tables_info' = parse_tables(worksheet)
    /\ tables_md' = [ k \in 1..Len(parse_tables(worksheet)) |->
                        parse_tables(worksheet)[k].markdown ]
    /\ tpc' = "parsed"
    /\ UNCHANGED << worksheet, table_config >>

(***************************************************************************)
(* SheetParser.parse_sheet: the content of one sheet                       *)
(*                                                                         *)
(* Besides its cells a worksheet carries embedded images, shapes with text *)
(* that the loader library exposes (sheet._drawing), shapes with text in   *)
(* the packaged drawing XML of the workbook file, and cell comments.       *)
(***************************************************************************)
MaxDrawn         == 1   \* images, shapes and comments of one kind on a sheet
MaxAssemblyRows  == 2   \* rows of the used range of an assembled sheet
MaxAssemblyCols  == 2   \* columns of the used range of an assembled sheet
MaxAssemblyCells == 4   \* cells of the used range of an assembled sheet

Drawings == [ images : 0..MaxDrawn, shapes : 0..MaxDrawn,
              xml_shapes : 0..MaxDrawn, comments : 0..MaxDrawn ]
NoDrawing == [ images |-> 0, shapes |-> 0, xml_shapes |-> 0, comments |-> 0 ]

AssemblyGrids ==
    UNION { UNION { [ 1..r -> [ 1..c -> CellValues ] ] :
                      c \in { k \in 1..MaxAssemblyCols : r * k <= MaxAssemblyCells } } :
              r \in 1..MaxAssemblyRows }

\* Sheets without declared tables, with one declared over the used range, and
\* with one declared over the first row of the used range.
AssemblySheets ==
    { [ min_row |-> 1, min_col |-> 1, rows |-> g, tables |-> t ] :
        g \in AssemblyGrids, t \in { "none", "whole", "first_row" } }

SheetConfigs == [ show_formulas : { TRUE }, extract_images : BOOLEAN ]

\* The excel_path argument of extract_shapes: None by default.
NoPath == "None"

Block(kind, i, md) == [ kind |-> kind, index |-> i, table |-> md ]

\* _extract_shapes_from_openpyxl and _extract_shapes_from_zip: one entry per
\* shape with text.
ShapeBlocks(n) == [ k \in 1..n |-> Block("shape", k, EmptyTable) ]

\* ImageParser.extract_shapes(sheet, excel_path): the shapes and the
\* strategies that ran.
extract_shapes(dr, excel_path) ==
    LET openpyxl_shapes == ShapeBlocks(dr.shapes)
    IN  IF openpyxl_shapes = << >> /\ excel_path # NoPath
        THEN [ shapes_md  |-> ShapeBlocks(dr.xml_shapes),
               strategies |-> << "library", "xml" >> ]
        ELSE [ shapes_md  |-> openpyxl_shapes,
               strategies |-> << "library" >> ]

\* SheetParser._convert_sheet_as_table
_convert_sheet_as_table(sh) ==
    IF dimensions(sh) = A1A1 THEN EmptyTable
    ELSE convert_range_to_markdown(sh, dimensions(sh))

NoSheetData ==
    [ content |-> << >>, tables_count |-> 0, images_count |-> 0,
      shapes_count |-> 0, fallback |-> FALSE, strategies |-> << >> ]

\* The try block of parse_sheet with the AI features off.  fallback records
\* that _convert_sheet_as_table was called, strategies what extract_shapes ran.
assemble(sh, dr) ==
    LET tables_info_ == parse_tables(sh)
        tables_md_   == [ k \in 1..Len(tables_info_) |->
                            Block("table", k, tables_info_[k].markdown) ]
        images_md    == IF table_config.extract_images
                        THEN [ k \in 1..extract_images(dr, 0).counter |->
                                 Block("image", k, EmptyTable) ]
                        ELSE << >>
        shapes       == extract_shapes(dr, NoPath)
        parts        == tables_md_ \o images_md \o shapes.shapes_md
        fallback_md  == _convert_sheet_as_table(sh)
    IN  [ content      |-> IF parts = << >> /\ ~fallback_md.empty
                           THEN << Block("table", 0, fallback_md) >>
                           ELSE parts,
          tables_count |-> Len(tables_info_),
          images_count |-> Len(images_md),
          shapes_count |-> Len(shapes.shapes_md),
          fallback     |-> parts = << >>,
          strategies   |-> shapes.strategies ]

IdleSheet ==
    /\ drawing = NoDrawing
    /\ sheet_data = NoSheetData

\* A worksheet of a loaded workbook waits for parse_sheet.
SheetToParse ==
    /\ \E s \in AssemblySheets : worksheet = [ s EXCEPT !.tables = DeclaredTables(s) ]
    /\ table_config \in SheetConfigs
    /\ drawing \in Drawings
    /\ detected = << >>
    /\ tables_md = << >>
    /\ tables_info = << >>
    /\ tpc = "ready"
    /\ sheet_data = NoSheetData

\* sheet_data = self.sheet_parser.parse_sheet(sheet, sheet_with_values)
ParseSheet ==
    /\ ParseTables
    /\ sheet_data' = assemble(worksheet, drawing)
    /\ UNCHANGED drawing

(***************************************************************************)
(* Strings.  A sheet title, a cell coordinate or a formula text is the     *)
(* sequence of its characters.                                             *)
(***************************************************************************)
UpperSeq == << "A", "B", "C", "D", "E", "F", "G", "H", "I", "J", "K", "L", "M",
               "N", "O", "P", "Q", "R", "S", "T", "U", "V", "W", "X", "Y", "Z" >>
LowerSeq == << "a", "b", "c", "d", "e", "f", "g", "h", "i", "j", "k", "l", "m",
               "n", "o", "p", "q", "r", "s", "t", "u", "v", "w", "x", "y", "z" >>

\* str.lower() and str.upper(), character by character
lower(text) ==
    [ i \in 1..Len(text) |->
        IF \E k \in 1..26 : UpperSeq[k] = text[i]
        THEN LowerSeq[CHOOSE k \in 1..26 : UpperSeq[k] = text[i]]
        ELSE text[i] ]
upper(text) ==
    [ i \in 1..Len(text) |->
        IF \E k \in 1..26 : LowerSeq[k] = text[i]
        THEN UpperSeq[CHOOSE k \in 1..26 : LowerSeq[k] = text[i]]
        ELSE text[i] ]

\* str.replace(old, new) for one-character old and new
replace(text, old, new) ==
    [ i \in 1..Len(text) |-> IF text[i] = old THEN new ELSE text[i] ]

\* c.isalnum()
isalnum(c) ==
    \/ \E k \in 1..26 : c = UpperSeq[k] \/ c = LowerSeq[k]
    \/ c \in Digits

\* word in text
Contains(text, word) ==
    \E i \in 0..(Len(text) - Len(word)) : SubSeq(text, i + 1, i + Len(word)) = word

(***************************************************************************)
(* ExcelToMarkdownConverter._analyze_references                            *)
(***************************************************************************)
\* The formula cells of one sheet, in the order of iter_rows: every cell
\* whose formula holds a '!' and matches the pattern appends one edge.
RECURSIVE EdgesOfCells(_, _)
EdgesOfCells(cells, title) ==
    IF cells = << >> THEN << >>
    ELSE LET ref == AnalyzeCell(cells[1].text, title, cells[1].cell)
         IN  (IF ref.status = "edge" THEN << ref >> ELSE << >>)
                 \o EdgesOfCells(Tail(cells), title)

\* for sheet in self.workbook.worksheets: every sheet of the workbook
RECURSIVE _analyze_references(_)
_analyze_references(sheets) ==
    IF sheets = << >> THEN << >>
    ELSE EdgesOfCells(sheets[1].formulas, sheets[1].name)
             \o _analyze_references(Tail(sheets))

(***************************************************************************)
(* MarkdownGenerator.merge_sheets                                          *)
(***************************************************************************)
AnchorChar(c) == isalnum(c) \/ c = "-"

MarkdownGenerator_create_anchor(sheet_name) ==
    LET anchor == lower(replace(replace(sheet_name, " ", "-"), "_", "-"))
    IN  SelectSeq(anchor, AnchorChar)

\* _find_related_references keeping only the edges that leave the sheet.
RECURSIVE OutgoingReferences(_, _)
OutgoingReferences(sheet_name, refs) ==
    IF refs = << >> THEN << >>
    ELSE (IF refs[1].from_sheet = sheet_name
          THEN << [ direction |-> "to", sheet |-> refs[1].to_sheet,
                    cell |-> refs[1].to_cell ] >>
          ELSE << >>)
             \o OutgoingReferences(sheet_name, Tail(refs))

RECURSIVE _find_related_references(_, _)
_find_related_references(sheet_name, refs) ==
    IF refs = << >> THEN << >>
    ELSE (IF refs[1].from_sheet = sheet_name
          THEN << [ direction |-> "to", sheet |-> refs[1].to_sheet,
                    cell |-> refs[1].to_cell ] >>
          ELSE IF refs[1].to_sheet = sheet_name
          THEN << [ direction |-> "from", sheet |-> refs[1].from_sheet,
                    cell |-> refs[1].from_cell ] >>
          ELSE << >>)
             \o _find_related_references(sheet_name, Tail(refs))

\* The lines of the related-sheets block, the title line left out; no line
\* stands for no block.
_generate_reference_links(references) ==
    [ i \in 1..Len(references) |->
        [ sheet     |-> references[i].sheet,
          anchor    |-> MarkdownGenerator_create_anchor(references[i].sheet),
          direction |-> references[i].direction,
          cell      |-> references[i].cell ] ]

_generate_toc(data) ==
    [ i \in 1..Len(data) |->
        [ name   |-> data[i].name,
          anchor |-> MarkdownGenerator_create_anchor(data[i].name),
          tables |-> data[i].tables_count,
          images |-> data[i].images_count ] ]

merge_sheets(data, refs, t) ==
    [ sheets_count |-> Len(data),
      time         |-> t,
      toc          |-> _generate_toc(data),
      sections     |-> [ i \in 1..Len(data) |->
                           [ number  |-> i,
                             name    |-> data[i].name,
                             anchor  |-> MarkdownGenerator_create_anchor(data[i].name),
                             content |-> data[i].content,
                             related |-> _generate_reference_links(
                                           _find_related_references(data[i].name, refs)) ] ] ]

\* The document without its generation timestamp.
StripTime(md) == [ md EXCEPT !.time = 0 ]

(***************************************************************************)
(* MetadataGenerator.generate                                              *)
(***************************************************************************)
\* total_tokens // chunk_size and estimated_tokens // chunk_size raise
\* ZeroDivisionError for a chunk size of 0.
DivisionRaises(chunk_size) == chunk_size = 0

\* The anchor function without the replacement of underscores.
AnchorKeepingUnderscores(sheet_name) ==
    SelectSeq(lower(replace(sheet_name, " ", "-")), AnchorChar)

MetadataGenerator_create_anchor(sheet_name) ==
    LET anchor == lower(replace(replace(sheet_name, " ", "-"), "_", "-"))
    IN  SelectSeq(anchor, AnchorChar)

Word(str) ==
    CASE str = "SUM"     -> << "S", "U", "M" >>
      [] str = "AVERAGE" -> << "A", "V", "E", "R", "A", "G", "E" >>
      [] str = "AVG"     -> << "A", "V", "G" >>
      [] str = "COUNT"   -> << "C", "O", "U", "N", "T" >>
      [] str = "VLOOKUP" -> << "V", "L", "O", "O", "K", "U", "P" >>
      [] str = "HLOOKUP" -> << "H", "L", "O", "O", "K", "U", "P" >>
      [] str = "IF"      -> << "I", "F" >>

\* The classification with the test for IF ahead of the others.
DetectConditionalFirst(text) ==
    LET formula_upper == upper(text)
    IN  IF Contains(formula_upper, Word("IF")) THEN "conditional"
        ELSE IF Contains(formula_upper, Word("SUM")) THEN "sum"
        ELSE IF Contains(formula_upper, Word("AVERAGE"))
                \/ Contains(formula_upper, Word("AVG")) THEN "average"
        ELSE IF Contains(formula_upper, Word("COUNT")) THEN "count"
        ELSE IF Contains(formula_upper, Word("VLOOKUP"))
                \/ Contains(formula_upper, Word("HLOOKUP")) THEN "lookup"
        ELSE "reference"

_detect_reference_type(text) ==
    LET formula_upper == upper(text)
    IN  IF Contains(formula_upper, Word("SUM")) THEN "sum"
        ELSE IF Contains(formula_upper, Word("AVERAGE"))
                \/ Contains(formula_upper, Word("AVG")) THEN "average"
        ELSE IF Contains(formula_upper, Word("COUNT")) THEN "count"
        ELSE IF Contains(formula_upper, Word("VLOOKUP"))
                \/ Contains(formula_upper, Word("HLOOKUP")) THEN "lookup"
        ELSE IF Contains(formula_upper, Word("IF")) THEN "conditional"
        ELSE "reference"

generate(data, refs) ==
    [ generated        |-> TRUE,
      total_sheets     |-> Len(data),
      sheets           |-> [ i \in 1..Len(data) |-> data[i].name ],
      section_in_md    |-> [ i \in 1..Len(data) |->
                               << "#" >> \o MetadataGenerator_create_anchor(data[i].name) ],
      total_tables     |-> SumOver(data, "tables_count"),
      total_images     |-> SumOver(data, "images_count"),
      cross_references |-> [ i \in 1..Len(refs) |->
                               [ from |-> refs[i].from_sheet \o << "!" >>
                                            \o refs[i].from_cell,
                                 to   |-> refs[i].to_sheet \o << "!" >> \o refs[i].to_cell,
                                 type |-> _detect_reference_type(refs[i].formula) ] ] ]

(***************************************************************************)
(* The analyzer and the metadata generator on one formula cell             *)
(***************************************************************************)
\* The sheet Summary whose only formula cell is A1.
SummarySheet(text) ==
    [ name     |-> << "S", "u", "m", "m", "a", "r", "y" >>,
      formulas |-> << [ cell |-> << "A", "1" >>, text |-> text ] >> ]

\* _analyze_references reaches the formula cell and returns.
AnalyzeFormulaCell ==
    /\ ref_info.status = "pending"
    /\ ref_info' = AnalyzeCell(formula.text, << "S", "u", "m", "m", "a", "r", "y" >>, << "A", "1" >>)
    /\ found_references' = _analyze_references(<< SummarySheet(formula.text) >>)
    /\ UNCHANGED << formula, ref_entry >>

\* generate reaches the edge in its loop over cross_references.
DescribeReference ==
    /\ found_references # << >>
    /\ ref_entry = NoEntry
    /\ ref_entry' = generate(<< >>, found_references).cross_references[1]
    /\ UNCHANGED << formula, ref_info, found_references >>

(***************************************************************************)
(* The anchors of one sheet: a document of the one sheet, which refers to  *)
(* itself, is merged and described.                                        *)
(***************************************************************************)
MaxNameLen == 3     \* characters of a sheet title

AnchorAlphabet == { "A", "b", "1", " ", "_", "-", "!" }

SheetTitles ==
    UNION { [ 1..n -> AnchorAlphabet ] : n \in 1..MaxNameLen }
        \cup { << "S", "a", "l", "e", "s", " ", "Q", "1" >> }

NoAnchors == [ toc |-> << >>, tag |-> << >>, related |-> << >>, section_in_md |-> << >> ]

IdleAnchor ==
    /\ anchor_name = << "S", "h", "e", "e", "t", "1" >>
    /\ anchors = NoAnchors

\* A sheet title waits for the generators.
TitledSheet ==
    /\ anchor_name \in SheetTitles
    /\ anchors = NoAnchors

\* merge_sheets and generate on the fragment of the sheet.
CreateAnchors ==
    /\ anchors = NoAnchors
    /\ LET data == << [ name |-> anchor_name, content |-> << >>, tables_count |-> 0,
                        images_count |-> 0, shapes_count |-> 0 ] >>
           refs == << [ status |-> "edge", from_sheet |-> anchor_name,
                        from_cell |-> << "A", "1" >>, to_sheet |-> anchor_name,
                        to_cell |-> << "B", "2" >>, formula |-> << "=", "B", "2" >> ] >>
           md   == merge_sheets(data, refs, 0)
           meta == generate(data, refs)
       IN  anchors' = [ toc           |-> md.toc[1].anchor,
                        tag           |-> md.sections[1].anchor,
                        related       |-> md.sections[1].related[1].anchor,
                        section_in_md |-> meta.section_in_md[1] ]
    /\ UNCHANGED anchor_name

(***************************************************************************)
(* The estimated number of chunks.  len(content) * 0.3 is kept in tenths   *)
(* of a token: 3 * len(content).                                           *)
(***************************************************************************)
MaxDocLen    == 40     \* characters of the merged document
MaxChunkSize == 3      \* configured chunk sizes 1..MaxChunkSize

\* ExcelToMarkdownConverter._estimate_chunks:
\* max(1, int(estimated_tokens // chunk_size) + 1)
_estimate_chunks(len, chunk_size) ==
    Max({ 1, (3 * len) \div (10 * chunk_size) + 1 })

\* MetadataGenerator._estimate_tokens: int(len(content) * 0.3)
_estimate_tokens(len) == (3 * len) \div 10

\* MetadataGenerator.generate: max(1, int(total_tokens // chunk_size) + 1)
estimated_chunks(len, chunk_size) ==
    Max({ 1, _estimate_tokens(len) \div chunk_size + 1 })

NoEstimate == [ result |-> 0, metadata |-> 0 ]

IdleChunks ==
    /\ doc_len = 0
    /\ target_chunk = DefaultChunkSize
    /\ chunk_estimate = NoEstimate

\* A merged document of some length has been written.
WrittenDocument ==
    /\ doc_len \in 0..MaxDocLen
    /\ target_chunk \in 1..MaxChunkSize
    /\ chunk_estimate = NoEstimate

\* _generate_metadata and the return statement of convert()
EstimateChunks ==
    /\ chunk_estimate = NoEstimate
    /\ chunk_estimate' = [ result   |-> _estimate_chunks(doc_len, target_chunk),
                           metadata |-> estimated_chunks(doc_len, target_chunk) ]
    /\ UNCHANGED << doc_len, target_chunk >>

(***************************************************************************)
(* ImageParser.extract_images, sheet after sheet of one conversion, on     *)
(* sheets whose images each either are saved or raise while being decoded  *)
(* or saved                                                                *)
(***************************************************************************)
MaxPictureSheets == 2
MaxPictures      == 2

SheetPictures == UNION { [ 1..n -> { "ok", "broken" } ] : n \in 0..MaxPictures }
PictureBooks  == UNION { [ 1..n -> SheetPictures ] : n \in 1..MaxPictureSheets }

\* f"chart_{self.image_counter:03d}.{image_format}"
image_filename(counter) == << "chart", counter >>

IdleImages ==
    pictures = << >> /\ picture_counter = 0 /\ parsed_pictures = << >>

\* A fresh ImageParser (image_counter 0) and the sheets of a workbook.
PicturesToExtract ==
    pictures \in PictureBooks /\ picture_counter = 0 /\ parsed_pictures = << >>

\* parse_sheet calls extract_images on the next sheet and keeps
\* images_md, images_info and whether an exception came out of the call.
ExtractImages ==
    /\ Len(parsed_pictures) < Len(pictures)
    /\ LET each == ExtractEach(pictures[Len(parsed_pictures) + 1], picture_counter)
       IN  /\ picture_counter' = each.counter
           /\ parsed_pictures' = Append(parsed_pictures,
                  [ images_md   |-> each.md,
                    images_info |-> [ j \in 1..Len(each.md) |->
                                        [ index    |-> each.md[j].ref,
                                          filename |-> image_filename(each.md[j].ref) ] ],
                    raised      |-> each.raised ])
    /\ UNCHANGED pictures

(***************************************************************************)
(* TableParser._format_cell_value and _is_date_format on a numeric value   *)
(*                                                                         *)
(* A format code is a sequence of characters; "yen", "nen", "gatsu" and    *)
(* "hi" stand for the yen sign and the characters for year, month and day. *)
(* A cell carries the identifier of its number format (below 164 for the   *)
(* built-in formats, whose code the identifier determines; the loader      *)
(* library knows no code for the locale-specific identifiers 27 to 36 and  *)
(* reports "General" for them) and the code; class says what the format    *)
(* displays.  A value is counted in thousandths.                           *)
(***************************************************************************)
FormatCells ==
    {
      [ numFmtId |-> 0, number_format |-> << "G", "e", "n", "e", "r", "a", "l" >>,
        class |-> "general" ],
      [ numFmtId |-> 1, number_format |-> << "0" >>,
        class |-> "number" ],
      [ numFmtId |-> 2, number_format |-> << "0", ".", "0", "0" >>,
        class |-> "number" ],
      [ numFmtId |-> 3, number_format |-> << "#", ",", "#", "#", "0" >>,
        class |-> "number" ],
      [ numFmtId |-> 4, number_format |-> << "#", ",", "#", "#", "0", ".", "0", "0" >>,
        class |-> "number" ],
      [ numFmtId |-> 9, number_format |-> << "0", "%" >>,
        class |-> "number" ],
      [ numFmtId |-> 10, number_format |-> << "0", ".", "0", "0", "%" >>,
        class |-> "number" ],
      [ numFmtId |-> 14, number_format |-> << "m", "m", "-", "d", "d", "-", "y", "y" >>,
        class |-> "date" ],
      [ numFmtId |-> 20, number_format |-> << "h", ":", "m", "m" >>,
        class |-> "time" ],
      [ numFmtId |-> 21, number_format |-> << "h", ":", "m", "m", ":", "s", "s" >>,
        class |-> "time" ],
      [ numFmtId |-> 22, number_format |-> << "m", "/", "d", "/", "y", "y", " ", "h", ":", "m", "m" >>,
        class |-> "datetime" ],
      [ numFmtId |-> 45, number_format |-> << "m", "m", ":", "s", "s" >>,
        class |-> "time" ],
      [ numFmtId |-> 32, number_format |-> << "G", "e", "n", "e", "r", "a", "l" >>,
        class |-> "time" ],
      [ numFmtId |-> 31, number_format |-> << "G", "e", "n", "e", "r", "a", "l" >>,
        class |-> "date" ],
      [ numFmtId |-> 164, number_format |-> << "h", "h", ":", "m", "m" >>,
        class |-> "time" ],
      [ numFmtId |-> 164, number_format |-> << "y", "y", "y", "y", "/", "m", "m", "/", "d", "d" >>,
        class |-> "date" ],
      [ numFmtId |-> 164, number_format |-> << "y", "y", "y", "y", "/", "m", "m", "/", "d", "d", " ", "h", "h", ":", "m", "m" >>,
        class |-> "datetime" ],
      [ numFmtId |-> 164, number_format |-> << "0", ".", "0" >>,
        class |-> "number" ],
      [ numFmtId |-> 164, number_format |-> << "0", ".", "0", "0", "0" >>,
        class |-> "number" ],
      [ numFmtId |-> 164, number_format |-> << "#", ",", "#", "#", "0", ".", "0" >>,
        class |-> "number" ],
      [ numFmtId |-> 164, number_format |-> << "#", ",", "#", "#", "0", ".", "0", "0", "0" >>,
        class |-> "number" ],
      [ numFmtId |-> 164, number_format |-> << "yen", "#", ",", "#", "#", "0" >>,
        class |-> "number" ],
      [ numFmtId |-> 164, number_format |-> << "y", "y", "y", "y", "nen", "m", "gatsu", "d", "hi" >>,
        class |-> "date" ] }

\* 0.5 (noon), 1.5, 1234.5, 1234.567, the day-serial 45000 and the numbers
\* outside the range taken for day-serials.
NumericValues == { 500, 1500, 1234500, 1234567, 45000000, 73051000, 0 - 2500 }

In(c, format_str) == \E i \in 1..Len(format_str) : format_str[i] = c

\* cell.is_date of the loader library for a numeric cell: the format code
\* holds one of the letters d, m, h, y, s.
is_date(cell) ==
    \E c \in { "d", "m", "h", "y", "s" } : In(c, lower(cell.number_format))

\* range(14, 23) + range(27, 37) + range(45, 48) + range(50, 59)
date_format_ids == (14..22) \cup (27..36) \cup (45..47) \cup (50..58)

_is_date_format(cell, value) ==
    LET format_str        == cell.number_format
        has_date_keywords == \/ Contains(lower(format_str), << "y", "y" >>)
                             \/ Contains(lower(format_str), << "m", "m" >>)
                             \/ Contains(lower(format_str), << "d", "d" >>)
        has_japanese_date == \E c \in { "nen", "gatsu", "hi" } : In(c, format_str)
    IN  IF value < 0 \/ value > 73050 * 1000 THEN FALSE
        ELSE IF cell.numFmtId \in date_format_ids THEN TRUE
        ELSE IF format_str # << >> /\ (has_date_keywords \/ has_japanese_date)
        THEN IF In(":", format_str) /\ In("m", lower(format_str))
             THEN \/ has_japanese_date
                  \/ Contains(lower(format_str), << "y", "y" >>)
                  \/ Contains(lower(format_str), << "d", "d" >>)
             ELSE TRUE
        ELSE is_date(cell)

\* The calendar day of _convert_excel_date(value) for a value with a fraction.
ConvertedDay(value) ==
    IF value > 59 * 1000 THEN PlusDays(Date(1899, 12, 30), value \div 1000)
    ELSE IF value >= 1000 THEN PlusDays(Date(1899, 12, 31), value \div 1000)
    ELSE PlusDays(Date(1900, 1, 1), value \div 1000)

\* format_str.count('0')
RECURSIVE Count(_, _)
Count(c, format_str) ==
    IF format_str = << >> THEN 0
    ELSE (IF Head(format_str) = c THEN 1 ELSE 0) + Count(c, Tail(format_str))

\* format_str.index('.')
Index(c, format_str) ==
    (CHOOSE i \in 1..Len(format_str) :
        format_str[i] = c /\ \A k \in 1..(i - 1) : format_str[k] # c) - 1

\* The decimals str() shows of a float with at most three of them.
ShownDecimals(value) ==
    IF value % 10 # 0 THEN 3 ELSE IF value % 100 # 0 THEN 2 ELSE 1

Rendered(kind, decimals, day) == [ kind |-> kind, decimals |-> decimals, day |-> day ]
NotFormatted == Rendered("none", 0, NoDate)

\* decimal_places = format_str.count('0') - format_str.index('.') - 1
decimal_places(format_str) == Count("0", format_str) - Index(".", format_str) - 1

\* The decimal places of the format code: its '0' after the decimal point.
DecimalsOfCode(format_str) ==
    IF In(".", format_str)
    THEN Count("0", SubSeq(format_str, Index(".", format_str) + 2, Len(format_str)))
    ELSE 0

\* _format_cell_value for an int or float value: a date, a date with time,
\* a percentage, a currency amount, a number with thousands separators and
\* fixed decimals, or the value as it is (also when the format specifier
\* built from a negative decimal_places raises ValueError).
_format_cell_value(value, cell) ==
    LET format_str == cell.number_format
        has_time   == \/ In("h", lower(format_str))
                      \/ (In("m", lower(format_str)) /\ In(":", format_str))
        raw        == Rendered("raw", ShownDecimals(value), NoDate)
    IN  IF _is_date_format(cell, value)
        THEN Rendered(IF has_time THEN "datetime" ELSE "date", 0, ConvertedDay(value))
        ELSE IF In("%", format_str) THEN Rendered("percent", 2, NoDate)
        ELSE IF In("yen", format_str) \/ In("en", format_str)
        THEN Rendered("currency", 0, NoDate)
        ELSE IF \/ Contains(format_str, << "#", ",", "#", "#", "0" >>)
                \/ Contains(format_str, << "0", ".", "0", "0" >>)
        THEN IF In(".", format_str)
             THEN IF decimal_places(format_str) >= 0
                  THEN Rendered("fixed", decimal_places(format_str), NoDate)
                  ELSE raw
             ELSE Rendered("fixed", 0, NoDate)
        ELSE raw

IdleFormat ==
    /\ format_cell = [ numFmtId |-> 0, number_format |-> << >>, class |-> "general" ]
    /\ numeric_value = 0
    /\ formatted = NotFormatted

\* A numeric cell of a range waits for its text.
CellToFormat ==
    /\ format_cell \in FormatCells
    /\ numeric_value \in NumericValues
    /\ formatted = NotFormatted

\* value = self._format_cell_value(value, format_cell)
FormatCellValue ==
    /\ formatted = NotFormatted
    /\ formatted' = _format_cell_value(numeric_value, format_cell)
    /\ UNCHANGED << format_cell, numeric_value >>

(***************************************************************************)
(* HistoryManager: add_record, delete_record and clear_all                 *)
(*                                                                         *)
(* A record is its id and its timestamp; the timestamp of the k-th record  *)
(* ever added is k.                                                        *)
(***************************************************************************)
HistoryLimit    == 100  \* the most records add_record keeps
MaxHistoryCalls == 4    \* calls made on one manager

\* The history after n calls of add_record on an empty history.
HistoryOf(n) == [ i \in 1..n |-> [ id |-> n + 1 - i, timestamp |-> n + 1 - i ] ]

\* The sizes of the history the manager loads from its file.
LoadedSizes == { 0, HistoryLimit - 1, HistoryLimit }

\* The record ids a caller asks to delete.
DeletedIds == { 1, 2, HistoryLimit, HistoryLimit + 1 }

IdleHistory ==
    /\ history = << >>
    /\ history_file = << >>
    /\ history_clock = 0
    /\ history_calls = 0

\* HistoryManager(): the history is what the file holds.
LoadedHistory ==
    /\ \E n \in LoadedSizes :
          /\ history = HistoryOf(n)
          /\ history_file = HistoryOf(n)
          /\ history_clock = n
    /\ history_calls = 0

\* add_record: the record gets the time and the id len(history) + 1, goes to
\* the front, the history is cut to its first HistoryLimit records and saved.
add_record ==
    /\ history_calls < MaxHistoryCalls
    /\ LET record   == [ id |-> Len(history) + 1, timestamp |-> history_clock + 1 ]
           inserted == << record >> \o history
           kept     == IF Len(inserted) > HistoryLimit
                       THEN SubSeq(inserted, 1, HistoryLimit)
                       ELSE inserted
       IN  /\ history' = kept
           /\ history_file' = kept
    /\ history_clock' = history_clock + 1
    /\ history_calls' = history_calls + 1

\* delete_record: every record with the id is dropped, the history saved.
delete_record ==
    /\ history_calls < MaxHistoryCalls
    /\ \E record_id \in DeletedIds :
          LET kept == SelectSeq(history, LAMBDA r : r.id # record_id)
          IN  /\ history' = kept
              /\ history_file' = kept
    /\ history_calls' = history_calls + 1
    /\ UNCHANGED history_clock

\* clear_all
clear_all ==
    /\ history_calls < MaxHistoryCalls
    /\ history' = << >>
    /\ history_file' = << >>
    /\ history_calls' = history_calls + 1
    /\ UNCHANGED history_clock

(***************************************************************************)
(* BatchProcessor: process_files, process_directory and get_summary        *)
(*                                                                         *)
(* The files are numbered in the sorted order of their paths.              *)
(***************************************************************************)
MaxBatchFiles == 3    \* files handed to one call
BatchPaths    == 1..3

BatchInputs == UNION { [ 1..n -> BatchPaths ] : n \in 0..MaxBatchFiles }

NoSummary == [ total |-> 0 - 1, success |-> 0, failed |-> 0, total_sheets |-> 0 ]

\* _process_file on a file convert() converts: the result of convert() with
\* input_file added; the caller sets status.
_process_file(excel_file) ==
    [ input_file |-> excel_file, output_file |-> << excel_file, "md" >>,
      status |-> "success", error_message |-> "", sheets_count |-> 1 ]

\* The loop of process_files without its try/except: the exception of a
\* file ends the loop.
RECURSIVE ProcessUntilRaise(_, _)
ProcessUntilRaise(input_files, disk) ==
    IF input_files = << >> \/ disk[Head(input_files)] = "broken" THEN << >>
    ELSE << _process_file(Head(input_files)) >>
             \o ProcessUntilRaise(Tail(input_files), disk)

\* The loop of process_files and process_directory: one result per file, the
\* result of convert() with status 'success', or the error record with the
\* message of the exception.
RECURSIVE ProcessEach(_, _)
ProcessEach(input_files, disk) ==
    IF input_files = << >> THEN << >>
    ELSE << IF disk[Head(input_files)] = "ok"
            THEN _process_file(Head(input_files))
            ELSE [ input_file    |-> Head(input_files),
                   output_file   |-> << Head(input_files), "md" >>,
                   status        |-> "error",
                   error_message |-> "cannot load",
                   sheets_count  |-> 0 ] >>
             \o ProcessEach(Tail(input_files), disk)

\* _find_excel_files: the files of the directory, sorted.
RECURSIVE Sorted(_)
Sorted(files) ==
    IF files = {} THEN << >>
    ELSE LET first == CHOOSE f \in files : \A g \in files : f <= g
         IN  << first >> \o Sorted(files \ { first })

_find_excel_files(directory) == Sorted(directory)

CountOf(results, status) ==
    Cardinality({ i \in 1..Len(results) : results[i].status = status })

RECURSIVE SheetsOfSuccessful(_)
SheetsOfSuccessful(results) ==
    IF results = << >> THEN 0
    ELSE (IF results[1].status = "success" THEN results[1].sheets_count ELSE 0)
             + SheetsOfSuccessful(Tail(results))

get_summary(results) ==
    IF results = << >>
    THEN [ total |-> 0, success |-> 0, failed |-> 0, total_sheets |-> 0 ]
    ELSE [ total        |-> Len(results),
           success      |-> CountOf(results, "success"),
           failed       |-> Len(results) - CountOf(results, "success"),
           total_sheets |-> SheetsOfSuccessful(results) ]

IdleBatch ==
    /\ batch_disk = [ p \in BatchPaths |-> "ok" ]
    /\ batch_input = << >>
    /\ batch_call = "none"
    /\ batch_results = << >>
    /\ batch_summary = NoSummary
    /\ batch_pc = "ready"

\* A fresh BatchProcessor and the files a caller has.
BatchToProcess ==
    /\ batch_disk \in [ BatchPaths -> { "ok", "broken" } ]
    /\ batch_input \in BatchInputs
    /\ batch_call = "none"
    /\ batch_results = << >>
    /\ batch_summary = NoSummary
    /\ batch_pc = "ready"

process_files ==
    /\ batch_pc = "ready"
    /\ batch_results' = ProcessEach(batch_input, batch_disk)
    /\ batch_call' = "files"
    /\ batch_pc' = "processed"
    /\ UNCHANGED << batch_disk, batch_input, batch_summary >>

\* The directory holds the files of batch_input.
process_directory ==
    /\ batch_pc = "ready"
    /\ batch_results' =
           ProcessEach(_find_excel_files({ batch_input[i] : i \in 1..Len(batch_input) }),
                       batch_disk)
    /\ batch_call' = "directory"
    /\ batch_pc' = "processed"
    /\ UNCHANGED << batch_disk, batch_input, batch_summary >>

GetSummary ==
    /\ batch_pc = "processed"
    /\ batch_summary' = get_summary(batch_results)
    /\ batch_pc' = "summarised"
    /\ UNCHANGED << batch_disk, batch_input, batch_call, batch_results >>

IdleUnits == IdleChunks /\ IdleImages /\ IdleFormat /\ IdleHistory /\ IdleBatch

(***************************************************************************)
(* ExcelToMarkdownConverter: construction and convert()                    *)
(***************************************************************************)
Snapshot == [ out_file |-> out_file, out_dir_exists |-> out_dir_exists,
              image_files |-> image_files, fragments |-> Len(sheets_data) ]

LastRun == IF pc = "Done"
           THEN [ done |-> TRUE, config |-> config, md |-> out_file.md ]
           ELSE prev_run

Returned == pc \in {"idle", "Done", "Failed"}

Init ==
    /\ input_file \in Workbooks
    /\ out_dir_exists \in BOOLEAN
    /\ out_file = NoFile
    /\ image_files = {}
    /\ now = 0
    /\ config \in Configs
    /\ workbook = NoWorkbook
    /\ sheets_data = <<>>
    /\ cross_references = <<>>
    /\ image_counter = 0
    /\ input_path = BookPath
    /\ pc = "idle"
    /\ idx = 0
    /\ md_content = EmptyMd
    /\ error = "none"
    /\ result = NoResult
    /\ phases = <<>>
    /\ at_start = [ out_file |-> NoFile, out_dir_exists |-> FALSE,
                    image_files |-> {}, fragments |-> 0 ]
    /\ prev_run = NoRun
    /\ IdleRef
    /\ IdleDate
    /\ IdleTables
    /\ IdleSheet
    /\ IdleAnchor
    /\ IdleUnits

\* __init__: a new converter object, constructed with the same settings,
\* takes the place of the old one (as the batch processor does per file).
Construct ==
    /\ pc \in {"Done", "Failed"}
    /\ UNCHANGED config
    /\ workbook' = NoWorkbook
    /\ sheets_data' = <<>>
    /\ cross_references' = <<>>
    /\ image_counter' = 0
    /\ pc' = "idle"
    /\ prev_run' = LastRun
    /\ UNCHANGED << ref_vars, date_vars, table_vars, sheet_vars, anchor_vars, unit_vars >>
    /\ UNCHANGED << env_vars, input_path, idx, md_content, error, result, phases,
                    at_start >>

\* The caller enters convert(input_path, output_path).
StartConvert ==
    /\ Returned
    /\ now < MaxCalls
    /\ now' = now + 1
    /\ \E path \in InputPaths : input_path' = path
    /\ pc' = "Loading"
    /\ phases' = << "Loading" >>
    /\ idx' = 0
    /\ md_content' = EmptyMd
    /\ error' = "none"
    /\ result' = NoResult
    /\ at_start' = Snapshot
    /\ prev_run' = LastRun
    /\ UNCHANGED << ref_vars, date_vars, table_vars, sheet_vars, anchor_vars, unit_vars >>
    /\ UNCHANGED << input_file, out_dir_exists, out_file, image_files, obj_vars >>

Enter(phase) ==
    /\ pc' = phase
    /\ phases' = Append(phases, phase)

Raise(exception) ==
    /\ Enter("Failed")
    /\ error' = exception

\* _load_excel without its except clause turning into a fatal error: the
\* failure is swallowed and the run goes on with whatever self.workbook holds.
_load_excel_swallowing ==
    /\ pc = "Loading"
    /\ IF input_path = BookPath
       THEN workbook' = [ loaded |-> TRUE, sheets |-> input_file ]
       ELSE UNCHANGED workbook
    /\ Enter("PerSheetProcessing")
    /\ UNCHANGED << ref_vars, date_vars, table_vars, sheet_vars, anchor_vars, unit_vars >>
    /\ UNCHANGED << env_vars, config, sheets_data, cross_references, image_counter,
                    input_path, idx, md_content, error, result, at_start, prev_run >>

\* 1. self.workbook, self.workbook_with_values = self._load_excel(input_path)
_load_excel ==
    /\ pc = "Loading"
    /\ IF input_path = BookPath
       THEN /\ workbook' = [ loaded |-> TRUE, sheets |-> input_file ]
            /\ Enter("PerSheetProcessing")
            /\ UNCHANGED error
       ELSE /\ Raise("ValueError")
            /\ UNCHANGED workbook
    /\ UNCHANGED << ref_vars, date_vars, table_vars, sheet_vars, anchor_vars, unit_vars >>
    /\ UNCHANGED << env_vars, config, sheets_data, cross_references, image_counter,
                    input_path, idx, md_content, result, at_start, prev_run >>

\* The loop body without parse_sheet's try/except: the exception of a sheet
\* reaches the caller of convert().
_convert_sheet_propagating ==
    /\ pc = "PerSheetProcessing"
    /\ idx < Len(workbook.sheets)
    /\ LET sheet  == workbook.sheets[idx + 1]
           parsed == parse_sheet(sheet, image_counter)
       IN  IF sheet.hidden /\ ~config.include_hidden
           THEN /\ UNCHANGED << sheets_data, image_counter, image_files, error >>
                /\ IF idx + 1 = Len(workbook.sheets)
                   THEN Enter("ReferenceAnalysis")
                   ELSE UNCHANGED << pc, phases >>
           ELSE IF sheet.raises # "none"
           THEN /\ Raise("Exception")
                /\ UNCHANGED << sheets_data, image_counter, image_files >>
           ELSE /\ sheets_data' = Append(sheets_data, parsed.data)
                /\ image_counter' = parsed.counter
                /\ image_files' = image_files \cup parsed.files
                /\ UNCHANGED error
                /\ IF idx + 1 = Len(workbook.sheets)
                   THEN Enter("ReferenceAnalysis")
                   ELSE UNCHANGED << pc, phases >>
    /\ idx' = idx + 1
    /\ UNCHANGED << ref_vars, date_vars, table_vars, sheet_vars, anchor_vars, unit_vars >>
    /\ UNCHANGED << input_file, out_dir_exists, out_file, now, config, workbook,
                    cross_references, input_path, md_content, result,
                    at_start, prev_run >>

\* 2. one iteration of the loop over self.workbook.worksheets
_convert_sheet ==
    /\ pc = "PerSheetProcessing"
    /\ idx < Len(workbook.sheets)
    /\ LET sheet  == workbook.sheets[idx + 1]
           parsed == parse_sheet(sheet, image_counter)
       IN  IF sheet.hidden /\ ~config.include_hidden
           THEN UNCHANGED << sheets_data, image_counter, image_files >>
           ELSE /\ sheets_data' = Append(sheets_data, parsed.data)
                /\ image_counter' = parsed.counter
                /\ image_files' = image_files \cup parsed.files
    /\ idx' = idx + 1
    /\ IF idx + 1 = Len(workbook.sheets)
       THEN Enter("ReferenceAnalysis")
       ELSE UNCHANGED << pc, phases >>
    /\ UNCHANGED << ref_vars, date_vars, table_vars, sheet_vars, anchor_vars, unit_vars >>
    /\ UNCHANGED << input_file, out_dir_exists, out_file, now, config, workbook,
                    cross_references, input_path, md_content, error, result,
                    at_start, prev_run >>

\* 3. self.cross_references = self._analyze_references()
AnalyzeReferences ==
    /\ pc = "ReferenceAnalysis"
    /\ cross_references' = _analyze_references(workbook.sheets)
    /\ Enter("Merging")
    /\ UNCHANGED << ref_vars, date_vars, table_vars, sheet_vars, anchor_vars, unit_vars >>
    /\ UNCHANGED << env_vars, config, workbook, sheets_data, image_counter,
                    input_path, idx, md_content, error, result, at_start, prev_run >>

\* 4. md_content = self._merge_sheets()
_merge_sheets ==
    /\ pc = "Merging"
    /\ md_content' = merge_sheets(sheets_data, cross_references, now)
    /\ Enter("Writing")
    /\ UNCHANGED << ref_vars, date_vars, table_vars, sheet_vars, anchor_vars, unit_vars >>
    /\ UNCHANGED << env_vars, obj_vars, input_path, idx, error, result, at_start,
                    prev_run >>

\* _write_output logging its failure instead of raising IOError.
_write_output_logging ==
    /\ pc = "Writing"
    /\ \/ /\ out_dir_exists' = TRUE
          /\ out_file' = [ exists |-> TRUE, md |-> md_content ]
       \/ /\ ~out_dir_exists
          /\ UNCHANGED << out_dir_exists, out_file >>
       \/ /\ out_dir_exists' = TRUE
          /\ UNCHANGED out_file
    /\ Enter("MetadataGeneration")
    /\ UNCHANGED << ref_vars, date_vars, table_vars, sheet_vars, anchor_vars, unit_vars >>
    /\ UNCHANGED << input_file, image_files, now, obj_vars, input_path, idx,
                    md_content, error, result, at_start, prev_run >>

\* 5. self._write_output(output_path, md_content): os.makedirs for a missing
\* directory, then open(path, 'w') and write; either may raise, which
\* _write_output turns into IOError.
_write_output ==
    /\ pc = "Writing"
    /\ \/ /\ out_dir_exists' = TRUE
          /\ out_file' = [ exists |-> TRUE, md |-> md_content ]
          /\ Enter("MetadataGeneration")
          /\ UNCHANGED error
       \/ /\ ~out_dir_exists
          /\ Raise("IOError")
          /\ UNCHANGED << out_dir_exists, out_file >>
       \/ /\ out_dir_exists' = TRUE
          /\ Raise("IOError")
          /\ UNCHANGED out_file
    /\ UNCHANGED << ref_vars, date_vars, table_vars, sheet_vars, anchor_vars, unit_vars >>
    /\ UNCHANGED << input_file, image_files, now, obj_vars, input_path, idx,
                    md_content, result, at_start, prev_run >>

\* 6. metadata = self._generate_metadata(...) and the return statement, which
\* calls self._estimate_chunks(md_content).
_generate_metadata ==
    /\ pc = "MetadataGeneration"
    /\ IF DivisionRaises(config.chunk_size)
       THEN /\ Raise("ZeroDivisionError")
            /\ UNCHANGED result
       ELSE /\ result' = [ returned     |-> TRUE,
                           sheets_count |-> Len(sheets_data),
                           tables_count |-> SumOver(sheets_data, "tables_count"),
                           images_count |-> SumOver(sheets_data, "images_count"),
                           shapes_count |-> SumOver(sheets_data, "shapes_count"),
                           metadata     |-> generate(sheets_data, cross_references) ]
            /\ Enter("Done")
            /\ UNCHANGED error
    /\ UNCHANGED << ref_vars, date_vars, table_vars, sheet_vars, anchor_vars, unit_vars >>
    /\ UNCHANGED << env_vars, obj_vars, input_path, idx, md_content, at_start,
                    prev_run >>

Next ==
    \/ Construct
    \/ StartConvert
    \/ _load_excel
    \/ _convert_sheet
    \/ AnalyzeReferences
    \/ _merge_sheets
    \/ _write_output
    \/ _generate_metadata

Spec == Init /\ [][Next]_vars

(***************************************************************************)
(* convert() on workbooks whose sheets hold formula cells.  The sheets     *)
(* have one table, no image and raise nowhere; the output directory        *)
(* exists and the chunk size is the default.                               *)
(***************************************************************************)
DocSheetName(i) ==
    IF i = 1 THEN << "S", "h", "e", "e", "t", "1" >>
    ELSE IF i = 2 THEN << "S", "a", "l", "e", "s", " ", "Q", "1" >>
    ELSE << "D", "a", "t", "a" >>

QuotedSheet1Formula ==
    [ text |-> << "=", "'", "S", "h", "e", "e", "t", "1", "'", "!", "A", "1" >>,
      to_sheet |-> << "S", "h", "e", "e", "t", "1" >>, to_cell |-> << "A", "1" >> ]
LocalSumFormula ==
    [ text |-> << "=", "A", "1", "+", "B", "2" >>, to_sheet |-> << >>, to_cell |-> << >> ]

\* A formula cell: its coordinate, its formula text, and the sheet and the
\* cell of the first reference of the formula.
CellWith(coordinate, f) ==
    [ cell |-> coordinate, text |-> f.text, to_sheet |-> f.to_sheet, to_cell |-> f.to_cell ]

\* The formula cells of a sheet, in the order of iter_rows.
DocFormulaCells ==
    { << >>,
      << CellWith(<< "A", "1" >>, QuotedSheet1Formula) >>,
      << CellWith(<< "A", "1" >>, SalesQ1Formula) >>,
      << CellWith(<< "A", "1" >>, SumSheet1Formula) >>,
      << CellWith(<< "A", "1" >>, LocalSumFormula) >>,
      << CellWith(<< "A", "1" >>, QuotedSheet1Formula),
         CellWith(<< "A", "2" >>, SalesQ1Formula) >> }

DocSheetsAt(i) ==
    [ name     : {DocSheetName(i)},
      hidden   : BOOLEAN,
      tables   : {1},
      images   : {0},
      raises   : {"none"},
      formulas : DocFormulaCells ]

RECURSIVE DocWorkbooksOfLen(_)
DocWorkbooksOfLen(n) ==
    IF n = 0 THEN { <<>> }
    ELSE { Append(w, s) : w \in DocWorkbooksOfLen(n - 1), s \in DocSheetsAt(n) }

DocWorkbooks == UNION { DocWorkbooksOfLen(n) : n \in 1..MaxSheets }

\* A fresh converter, an existing output directory and the default chunk
\* size; input_path is given at each call of convert().
DocStart ==
    /\ out_dir_exists = TRUE
    /\ out_file = NoFile
    /\ image_files = {}
    /\ now = 0
    /\ config \in [ chunk_size : {DefaultChunkSize}, include_hidden : BOOLEAN ]
    /\ workbook = NoWorkbook
    /\ sheets_data = <<>>
    /\ cross_references = <<>>
    /\ image_counter = 0
    /\ input_path = BookPath
    /\ pc = "idle"
    /\ idx = 0
    /\ md_content = EmptyMd
    /\ error = "none"
    /\ result = NoResult
    /\ phases = <<>>
    /\ at_start = [ out_file |-> NoFile, out_dir_exists |-> FALSE,
                    image_files |-> {}, fragments |-> 0 ]
    /\ prev_run = NoRun
    /\ IdleRef
    /\ IdleDate
    /\ IdleTables
    /\ IdleSheet
    /\ IdleAnchor
    /\ IdleUnits

InitDoc == input_file \in DocWorkbooks /\ DocStart

SpecDoc == InitDoc /\ [][Next]_vars

(***************************************************************************)
(* convert() on a workbook of two visible sheets: "Data" with one declared *)
(* table of 3 rows by 2 columns without formulas, and "Summary" with the   *)
(* cell =SUM(Data!B2:B3).  A sheet carries its cells, and its tables are    *)
(* what parse_tables makes of them.                                        *)
(***************************************************************************)
SumDataFormula ==
    [ text |-> << "=", "S", "U", "M", "(", "D", "a", "t", "a", "!", "B", "2", ":", "B", "3", ")" >>,
      to_sheet |-> << "D", "a", "t", "a" >>, to_cell |-> << "B", "2", ":", "B", "3" >> ]

DataCells ==
    [ min_row |-> 1, min_col |-> 1,
      rows    |-> [ r \in 1..3 |-> [ c \in 1..2 |-> "text" ] ],
      tables  |-> << Range(1, 3, 1, 2) >> ]

\* Where the formula cell of Summary is: alone in A1, alone in A2, in B1
\* right of a label in A1, or in A2 below a label in A1; with or without a
\* cached value.
SummaryLayouts ==
    [ place : { "alone_A1", "alone_A2", "right_of_label", "below_label" },
      cell  : FormulaCells ]

SummaryCells(layout) ==
    [ min_row |-> IF layout.place = "alone_A2" THEN 2 ELSE 1,
      min_col |-> 1,
      rows    |-> CASE layout.place = "right_of_label" -> << << "text", layout.cell >> >>
                    [] layout.place = "below_label"    -> << << "text" >>, << layout.cell >> >>
                    [] OTHER                           -> << << layout.cell >> >>,
      tables  |-> << >> ]

SummaryFormulas(layout) ==
    << CellWith(CASE layout.place = "alone_A1"       -> << "A", "1" >>
                  [] layout.place = "right_of_label" -> << "B", "1" >>
                  [] OTHER                           -> << "A", "2" >>,
                SumDataFormula) >>

ScenarioSheet(title, cells, formula_cells) ==
    [ name     |-> title,
      hidden   |-> FALSE,
      tables   |-> Len(parse_tables(cells)),
      images   |-> 0,
      raises   |-> "none",
      formulas |-> formula_cells,
      cells    |-> cells ]

ScenarioWorkbook(layout) ==
    << ScenarioSheet(<< "D", "a", "t", "a" >>, DataCells, << >>),
       ScenarioSheet(<< "S", "u", "m", "m", "a", "r", "y" >>,
                     SummaryCells(layout), SummaryFormulas(layout)) >>

InitScenario ==
    /\ DocStart
    /\ \E layout \in SummaryLayouts : input_file = ScenarioWorkbook(layout)

SpecScenario == InitScenario /\ [][Next]_vars

(***************************************************************************)
(* The analyzer, the date conversion and the table parser on their own     *)
(***************************************************************************)
IdleConvert ==
    /\ input_file = << >>
    /\ out_dir_exists = FALSE
    /\ out_file = NoFile
    /\ image_files = {}
    /\ now = 0
    /\ config = [ chunk_size |-> DefaultChunkSize, include_hidden |-> FALSE ]
    /\ workbook = NoWorkbook
    /\ sheets_data = << >>
    /\ cross_references = << >>
    /\ image_counter = 0
    /\ input_path = BookPath
    /\ pc = "idle"
    /\ idx = 0
    /\ md_content = EmptyMd
    /\ error = "none"
    /\ result = NoResult
    /\ phases = << >>
    /\ at_start = [ out_file |-> NoFile, out_dir_exists |-> FALSE,
                    image_files |-> {}, fragments |-> 0 ]
    /\ prev_run = NoRun

NextRef ==
    /\ AnalyzeFormulaCell \/ DescribeReference
    /\ UNCHANGED << convert_vars, date_vars, table_vars, sheet_vars, anchor_vars, unit_vars >>
InitRef == IdleConvert /\ FormulaCell /\ IdleDate /\ IdleTables /\ IdleSheet /\ IdleAnchor /\ IdleUnits
SpecRef == InitRef /\ [][NextRef]_vars

NextAnchor ==
    CreateAnchors /\ UNCHANGED << convert_vars, ref_vars, date_vars, table_vars, sheet_vars, unit_vars >>
InitAnchor == IdleConvert /\ IdleRef /\ IdleDate /\ IdleTables /\ IdleSheet /\ TitledSheet /\ IdleUnits
SpecAnchor == InitAnchor /\ [][NextAnchor]_vars

NextDate == ConvertDate /\ UNCHANGED << convert_vars, ref_vars, table_vars, sheet_vars, anchor_vars, unit_vars >>
InitDate == IdleConvert /\ IdleRef /\ IdleDate /\ IdleTables /\ IdleSheet /\ IdleAnchor /\ IdleUnits
SpecDate == InitDate /\ [][NextDate]_vars

NextTables == ParseTables /\ UNCHANGED << convert_vars, ref_vars, date_vars, sheet_vars, anchor_vars, unit_vars >>
InitTables == IdleConvert /\ IdleRef /\ IdleDate /\ LoadedSheet /\ IdleSheet /\ IdleAnchor /\ IdleUnits
SpecTables == InitTables /\ [][NextTables]_vars

NextSheet == ParseSheet /\ UNCHANGED << convert_vars, ref_vars, date_vars, anchor_vars, unit_vars >>
InitSheet == IdleConvert /\ IdleRef /\ IdleDate /\ SheetToParse /\ IdleAnchor /\ IdleUnits
SpecSheet == InitSheet /\ [][NextSheet]_vars

NextChunks ==
    /\ EstimateChunks
    /\ UNCHANGED << convert_vars, ref_vars, date_vars, table_vars, sheet_vars, anchor_vars,
                    image_vars, format_vars, history_vars, batch_vars >>
InitChunks ==
    /\ IdleConvert /\ IdleRef /\ IdleDate /\ IdleTables /\ IdleSheet /\ IdleAnchor
    /\ IdleImages
    /\ IdleFormat
    /\ IdleHistory
    /\ IdleBatch
    /\ WrittenDocument
SpecChunks == InitChunks /\ [][NextChunks]_vars

NextImages ==
    /\ ExtractImages
    /\ UNCHANGED << convert_vars, ref_vars, date_vars, table_vars, sheet_vars, anchor_vars,
                    chunk_vars, format_vars, history_vars, batch_vars >>
InitImages ==
    /\ IdleConvert /\ IdleRef /\ IdleDate /\ IdleTables /\ IdleSheet /\ IdleAnchor
    /\ IdleChunks
    /\ IdleFormat
    /\ IdleHistory
    /\ IdleBatch
    /\ PicturesToExtract
SpecImages == InitImages /\ [][NextImages]_vars

NextFormat ==
    /\ FormatCellValue
    /\ UNCHANGED << convert_vars, ref_vars, date_vars, table_vars, sheet_vars, anchor_vars,
                    chunk_vars, image_vars, history_vars, batch_vars >>
InitFormat ==
    /\ IdleConvert /\ IdleRef /\ IdleDate /\ IdleTables /\ IdleSheet /\ IdleAnchor
    /\ IdleChunks
    /\ IdleImages
    /\ IdleHistory
    /\ IdleBatch
    /\ CellToFormat
SpecFormat == InitFormat /\ [][NextFormat]_vars

NextHistory ==
    /\ \/ add_record
       \/ delete_record
       \/ clear_all
    /\ UNCHANGED << convert_vars, ref_vars, date_vars, table_vars, sheet_vars, anchor_vars,
                    chunk_vars, image_vars, format_vars, batch_vars >>
InitHistory ==
    /\ IdleConvert /\ IdleRef /\ IdleDate /\ IdleTables /\ IdleSheet /\ IdleAnchor
    /\ IdleChunks
    /\ IdleImages
    /\ IdleFormat
    /\ IdleBatch
    /\ LoadedHistory
SpecHistory == InitHistory /\ [][NextHistory]_vars

NextBatch ==
    /\ \/ process_files
       \/ process_directory
       \/ GetSummary
    /\ UNCHANGED << convert_vars, ref_vars, date_vars, table_vars, sheet_vars, anchor_vars,
                    chunk_vars, image_vars, format_vars, history_vars >>
InitBatch ==
    /\ IdleConvert /\ IdleRef /\ IdleDate /\ IdleTables /\ IdleSheet /\ IdleAnchor
    /\ IdleChunks
    /\ IdleImages
    /\ IdleFormat
    /\ IdleHistory
    /\ BatchToProcess
SpecBatch == InitBatch /\ [][NextBatch]_vars

(***************************************************************************)
(* Properties of convert()                                                 *)
(***************************************************************************)
IsPrefix(p, q) == Len(p) <= Len(q) /\ SubSeq(q, 1, Len(p)) = p
Front(q) == SubSeq(q, 1, Len(q) - 1)

\* The phase the run was in when it failed.
FailedFrom == phases[Len(phases) - 1]

\* config.get('include_hidden', False) and sheet_state decide whether the
\* loop of convert() hands a sheet to the sheet assembler.
IsProcessed(sheet) == ~sheet.hidden \/ config.include_hidden

\* The run has loaded its workbook.
Loaded == pc \notin {"idle", "Loading"} /\ input_path = BookPath

Visited      == SubSeq(workbook.sheets, 1, idx)
NewFragments == SubSeq(sheets_data, at_start.fragments + 1, Len(sheets_data))

HasWarning(fragment) ==
    \E i \in 1..Len(fragment.content) : fragment.content[i] = WarningBlock

\* C1: a convert() run passes through Loading, per-sheet processing, reference
\* analysis, merging, writing and metadata generation in this order and then
\* returns its result; it fails only from Loading or from Writing, so once the
\* output file has been written it returns a result.
C1_PhasesInOrderFailOnlyFromLoadingOrWriting ==
    pc # "idle" =>
        /\ pc = phases[Len(phases)]
        /\ IF pc = "Failed"
           THEN /\ IsPrefix(Front(phases), PhaseOrder)
                /\ FailedFrom \in {"Loading", "Writing"}
           ELSE IsPrefix(phases, PhaseOrder)
        /\ pc = "Done" => result.returned
        /\ (\E i \in 1..Len(phases) : phases[i] = "MetadataGeneration")
              => pc \in {"MetadataGeneration", "Done"}

\* C2: when the input is not a workbook, convert() aborts with ValueError
\* before any sheet is processed, and the output file, the image files and the
\* metadata are as they were when convert() was entered.
C2_LoadFailureAbortsBeforeAnyOutput ==
    /\ (pc \notin {"idle", "Loading"} /\ input_path = BrokenPath) =>
          /\ pc = "Failed"
          /\ error = "ValueError"
          /\ phases = << "Loading", "Failed" >>
          /\ idx = 0
          /\ Len(sheets_data) = at_start.fragments
          /\ out_file = at_start.out_file
          /\ out_dir_exists = at_start.out_dir_exists
          /\ image_files = at_start.image_files
          /\ ~result.returned
          /\ ~result.metadata.generated
    /\ (pc # "idle" /\ error = "ValueError") => input_path = BrokenPath

\* C2 witness: a load failure after an earlier run left an output file and an
\* image file behind.
C2_Witness ==
    /\ pc = "Failed"
    /\ error = "ValueError"
    /\ out_file.exists
    /\ image_files # {}

\* C3: Writing creates a missing output directory; when the path cannot be
\* created or written convert() fails with IOError, metadata generation is
\* never run and no result is returned.
C3_WriteFailureIsIOErrorBeforeMetadata ==
    /\ pc = "MetadataGeneration" =>
          /\ out_dir_exists
          /\ out_file = [ exists |-> TRUE, md |-> md_content ]
    /\ (pc # "idle" /\ error = "IOError") =>
          /\ pc = "Failed"
          /\ phases = SubSeq(PhaseOrder, 1, 5) \o << "Failed" >>
          /\ out_file = at_start.out_file
          /\ ~result.returned
          /\ ~result.metadata.generated
    /\ (pc = "Failed" /\ FailedFrom = "Writing") => error = "IOError"

\* C3 witness: the directory was missing and has been created, then writing
\* the file failed.
C3_Witness ==
    /\ pc = "Failed"
    /\ error = "IOError"
    /\ out_dir_exists
    /\ ~at_start.out_dir_exists

\* C4: an exception raised while assembling a sheet does not abort the
\* conversion: the sheet's fragment is produced with the warning line as its
\* content, the later sheets are processed in workbook order, and the run
\* does not fail from per-sheet processing.
C4_SheetFailureDegradesOnlyThatSheet ==
    Loaded =>
        LET handled == SelectSeq(Visited, IsProcessed)
        IN  /\ Len(NewFragments) = Len(handled)
            /\ \A i \in 1..Len(handled) :
                  /\ NewFragments[i].name = handled[i].name
                  /\ handled[i].raises # "none"
                        => NewFragments[i].content = << WarningBlock >>
                  /\ handled[i].raises = "none" => ~HasWarning(NewFragments[i])
            /\ pc # "PerSheetProcessing" => idx = Len(workbook.sheets)
            /\ pc = "Failed" => FailedFrom # "PerSheetProcessing"

\* C4 witness: the first of two processed sheets raised, the second did not,
\* and the run returned.
C4_Witness ==
    /\ pc = "Done"
    /\ input_path = BookPath
    /\ Len(workbook.sheets) = 2
    /\ workbook.sheets[1].raises # "none"
    /\ workbook.sheets[2].raises = "none"
    /\ IsProcessed(workbook.sheets[1])
    /\ IsProcessed(workbook.sheets[2])
    /\ Len(NewFragments) = 2

\* What the sheets of the input that the call processes amount to.
ProcessedSheets == SelectSeq(input_file, IsProcessed)
ExpectedCounts  == [ i \in 1..Len(ProcessedSheets) |->
                       parse_sheet(ProcessedSheets[i], 0).data ]

\* C5: the result of every convert() call is constructed fresh: sheets_count,
\* the table, image and shape counts, the sections of the Markdown and the
\* metadata cover exactly the processed sheets of that call's input workbook.
C5_ResultCoversOnlyThisCall ==
    pc = "Done" =>
        /\ result.sheets_count = Len(ProcessedSheets)
        /\ result.tables_count = SumOver(ExpectedCounts, "tables_count")
        /\ result.images_count = SumOver(ExpectedCounts, "images_count")
        /\ result.shapes_count = SumOver(ExpectedCounts, "shapes_count")
        /\ result.metadata.total_sheets = Len(ProcessedSheets)
        /\ Len(out_file.md.sections) = Len(ProcessedSheets)
        /\ \A i \in 1..Len(ProcessedSheets) :
              /\ i <= Len(out_file.md.sections)
              /\ out_file.md.sections[i].name = ProcessedSheets[i].name

\* C6: two convert() invocations on the same input with the same
\* configuration write the same Markdown, the generation timestamp apart.
C6_SameInputSameMarkdown ==
    (pc = "Done" /\ prev_run.done /\ prev_run.config = config) =>
        StripTime(out_file.md) = StripTime(prev_run.md)

(***************************************************************************)
(* Cross-sheet reference extraction                                        *)
(***************************************************************************)
\* C7: for every formula with a sheet-qualified reference the recorded edge
\* names exactly the referenced sheet (no quotes, no preceding formula text)
\* and the cell or range after "!"; '=SUM(Sheet1!A1:A10)' gives Sheet1 and
\* A1:A10, "='Sales Q1'!B2" gives Sales Q1 and B2.
C7_EdgeNamesTheReferencedSheet ==
    (ref_info.status # "pending" /\ HasReference(formula)) =>
        /\ ref_info.status = "edge"
        /\ ref_info.to_sheet = formula.to_sheet
        /\ ref_info.to_cell = formula.to_cell

(***************************************************************************)
(* Date serials                                                            *)
(***************************************************************************)
\* C8: serial 1 is 1900-01-01, serial 61 is 1900-03-01, serial 36526 is
\* 2000-01-01, and serial 60 is the day after serial 59, never the same day.
C8_NamedSerialsFollowTheEpochConvention ==
    /\ (excel_date # NoDate /\ serial = 1) => excel_date = Date(1900, 1, 1)
    /\ (excel_date # NoDate /\ serial = 61) => excel_date = Date(1900, 3, 1)
    /\ (excel_date # NoDate /\ serial = 36526) => excel_date = Date(2000, 1, 1)
    /\ (prev_date # NoDate /\ prev_serial = 59 /\ serial = 60) =>
            DayNumber(excel_date) = DayNumber(prev_date) + 1

(***************************************************************************)
(* Table detection                                                         *)
(***************************************************************************)
RowsOf(sh) == sh.min_row..MaxRowOf(sh)
RowsOfRange(range) == range.min_row..range.max_row

\* A fully blank row with a non-blank row above it and one below it.
HasSeparatingBlankRow(sh) ==
    \E b \in RowsOf(sh) :
        /\ RowIsBlank(sh, b)
        /\ \E a \in RowsOf(sh) : a < b /\ ~RowIsBlank(sh, a)
        /\ \E c \in RowsOf(sh) : c > b /\ ~RowIsBlank(sh, c)

Detected == tpc = "parsed" /\ worksheet.tables = << >>

\* C9: on a sheet without declared tables that has a fully blank row between
\* non-blank rows, detection returns at least 2 regions; no two regions share
\* a row, no region contains a blank row, and between consecutive regions
\* lies a fully blank row.
C9_BlankRowsSplitTheSheetIntoDisjointRegions ==
    (Detected /\ HasSeparatingBlankRow(worksheet)) =>
        /\ Len(detected) >= 2
        /\ \A i, j \in 1..Len(detected) :
              i # j => RowsOfRange(detected[i]) \cap RowsOfRange(detected[j]) = {}
        /\ \A i \in 1..Len(detected) :
              \A r \in RowsOfRange(detected[i]) : ~RowIsBlank(worksheet, r)
        /\ \A i \in 1..(Len(detected) - 1) :
              \E b \in RowsOf(worksheet) :
                  /\ detected[i].max_row < b
                  /\ b < detected[i + 1].min_row
                  /\ RowIsBlank(worksheet, b)

\* Three regions have been detected, separated by rows that are blank
\* because they hold white space only.
C9_Witness ==
    /\ Detected
    /\ HasSeparatingBlankRow(worksheet)
    /\ Len(detected) = 3
    /\ \A b \in RowsOf(worksheet) :
          RowIsBlank(worksheet, b) =>
              \E c \in worksheet.min_col..MaxColOf(worksheet) :
                  CellValue(worksheet, b, c) = "blank"

\* C10: a sheet without declared tables whose every row is blank (every cell
\* null or white space only) yields no table: no table region, no table
\* Markdown.
C10_AllBlankSheetYieldsNoTable ==
    (Detected /\ \A r \in RowsOf(worksheet) : RowIsBlank(worksheet, r)) =>
        /\ tables_info = << >>
        /\ tables_md = << >>

\* C11: a sheet without declared tables whose used range has no blank row
\* (and so holds a non-blank cell), whatever its size or position, yields
\* exactly one auto-detected region, and its range is the whole used range.
C11_NoBlankRowYieldsTheWholeUsedRange ==
    (Detected /\ \A r \in RowsOf(worksheet) : ~RowIsBlank(worksheet, r)) =>
        /\ Len(tables_info) = 1
        /\ tables_info[1].range = dimensions(worksheet)
        /\ tables_info[1].type = "auto_detected"

(***************************************************************************)
(* Formula cells in rendered tables                                        *)
(***************************************************************************)
Parsed == tpc = "parsed"

\* The rows of a rendered table, header first.
RenderedRows(md) == << md.headers >> \o md.body

\* Rows and columns of a range that have something to show: a row with a
\* cell that is not null, a column with such a cell in such a row.
KeptRows(sh, range) ==
    { r \in RowsOfRange(range) :
        \E c \in range.min_col..range.max_col : CellValue(sh, r, c) # "null" }
KeptCols(sh, range) ==
    { c \in range.min_col..range.max_col :
        \E r \in KeptRows(sh, range) : CellValue(sh, r, c) # "null" }

\* What the rendered table shows at the place of cell (r, c) of the sheet
\* ("" when the table has no such place).
ShownAt(sh, info, r, c) ==
    LET rows == RenderedRows(info.markdown)
        i    == Cardinality({ k \in KeptRows(sh, info.range) : k <= r })
        j    == Cardinality({ k \in KeptCols(sh, info.range) : k <= c })
    IN  IF i \in 1..Len(rows) /\ j \in 1..Len(rows[i]) THEN rows[i][j] ELSE ""

FormulaCellsOf(sh, range) ==
    { rc \in RowsOfRange(range) \X (range.min_col..range.max_col) :
        CellValue(sh, rc[1], rc[2]) \in FormulaCells }

\* C12: a formula cell of a rendered region whose computed value is null is
\* shown as its formula text; with show_formulas enabled the notes of the
\* table hold, for every formula cell of the region, exactly one entry, which
\* maps the cell's coordinate to its formula.
C12_FormulaShownAndNotedOnce ==
    Parsed =>
        \A i \in 1..Len(tables_info) :
            \A rc \in FormulaCellsOf(worksheet, tables_info[i].range) :
                LET v     == CellValue(worksheet, rc[1], rc[2])
                    notes == tables_info[i].markdown.notes
                    mine  == { k \in 1..Len(notes) :
                                 notes[k].row = rc[1] /\ notes[k].col = rc[2] }
                IN  /\ v = "formula" =>
                          ShownAt(worksheet, tables_info[i], rc[1], rc[2]) = FormulaOf(v)
                    /\ table_config.show_formulas =>
                          /\ Cardinality(mine) = 1
                          /\ \A k \in mine : notes[k].formula = FormulaOf(v)

\* A declared table with a blank first row, a formula cell without computed
\* value and one with, rendered with show_formulas enabled.
C12_Witness ==
    /\ Parsed
    /\ table_config.show_formulas
    /\ worksheet.tables # << >>
    /\ Len(tables_info) = 1
    /\ RowIsBlank(worksheet, 1)
    /\ \E rc \in FormulaCellsOf(worksheet, tables_info[1].range) :
          CellValue(worksheet, rc[1], rc[2]) = "formula"
    /\ \E rc \in FormulaCellsOf(worksheet, tables_info[1].range) :
          CellValue(worksheet, rc[1], rc[2]) = "formula_cached"

(***************************************************************************)
(* Sheet assembly                                                          *)
(***************************************************************************)
HasBlock(content, kind) == \E i \in 1..Len(content) : content[i].kind = kind

\* The used range rendered as one table.
UsedRangeTable == convert_range_to_markdown(worksheet, dimensions(worksheet))

\* C13: a sheet that produced zero tables and zero images takes the fallback
\* path, which renders the whole used range as one table through the normal
\* render step; a sheet that produced a table or an image does not take it.
C13_FallbackExactlyWhenNoTableNoImage ==
    Parsed =>
        /\ (sheet_data.tables_count = 0 /\ sheet_data.images_count = 0) =>
              /\ sheet_data.fallback
              /\ ~UsedRangeTable.empty =>
                    \E i \in 1..Len(sheet_data.content) :
                        /\ sheet_data.content[i].kind = "table"
                        /\ sheet_data.content[i].table = UsedRangeTable
        /\ (sheet_data.tables_count > 0 \/ sheet_data.images_count > 0) =>
              ~sheet_data.fallback

\* The sheets of the workbook whose sheet_state is hidden.
HiddenSheets == { input_file[i].name : i \in { j \in 1..Len(input_file) : input_file[j].hidden } }

\* The names the sections of the written document carry.
SectionNames(md) == { md.sections[i].name : i \in 1..Len(md.sections) }

\* The sheet is named as the referencing sheet by an entry of a related-sheets
\* block of the document.
NamedAsSource(md, name) ==
    \E i \in 1..Len(md.sections) : \E k \in 1..Len(md.sections[i].related) :
        /\ md.sections[i].related[k].direction = "from"
        /\ md.sections[i].related[k].sheet = name

\* A run of a newly constructed converter has returned its result.
FirstRunDone == pc = "Done" /\ at_start.fragments = 0

\* C14: with include_hidden unset a hidden sheet leaves no trace in the output
\* of a run: no fragment, no section, no entry of the table of contents, no
\* share in sheets_count, no cross-reference edge leaving it and no
\* related-sheets entry naming it as the referencing sheet; with include_hidden
\* set every sheet of the workbook has its fragment.
C14_HiddenSheetLeavesNoTrace ==
    FirstRunDone =>
        IF config.include_hidden
        THEN /\ Len(sheets_data) = Len(input_file)
             /\ \A i \in 1..Len(input_file) : sheets_data[i].name = input_file[i].name
        ELSE /\ result.sheets_count = Len(input_file) - Cardinality(HiddenSheets)
             /\ \A h \in HiddenSheets :
                  /\ \A i \in 1..Len(sheets_data) : sheets_data[i].name # h
                  /\ h \notin SectionNames(out_file.md)
                  /\ \A i \in 1..Len(out_file.md.toc) : out_file.md.toc[i].name # h
                  /\ \A i \in 1..Len(cross_references) : cross_references[i].from_sheet # h
                  /\ \A i \in 1..Len(result.metadata.cross_references) :
                        ~IsPrefix(h \o << "!" >>, result.metadata.cross_references[i].from)
                  /\ ~NamedAsSource(out_file.md, h)

(***************************************************************************)
(* Shapes and comments of a sheet                                          *)
(***************************************************************************)
\* C15: shape extraction of a sheet runs the drawing API of the loader
\* library first and the parse of the packaged drawing XML after it exactly
\* when the library yielded no shape.
C15_XmlStrategyRunsExactlyWhenLibraryYieldsNoShape ==
    Parsed =>
        sheet_data.strategies = IF drawing.shapes > 0
                                THEN << "library" >>
                                ELSE << "library", "xml" >>

\* The blocks of a kind in the content of the parsed sheet.
BlocksOfKind(kind) ==
    { i \in 1..Len(sheet_data.content) : sheet_data.content[i].kind = kind }

\* C16: every cell comment of a parsed sheet has its one block in the content
\* of the sheet, whatever shape extraction found.
C16_EveryCommentHasItsBlock ==
    Parsed => Cardinality(BlocksOfKind("comment")) = drawing.comments

(***************************************************************************)
(* Anchors                                                                 *)
(***************************************************************************)
\* The anchor of a title, character by character: a space or an underscore
\* becomes a hyphen, a letter its lower case, a digit or a hyphen stays, any
\* other character is removed.
RECURSIVE AnchorOf(_)
AnchorOf(name) ==
    IF name = << >> THEN << >>
    ELSE LET c == name[1]
         IN  (IF c \in { " ", "_", "-" } THEN << "-" >>
              ELSE IF isalnum(c) THEN lower(<< c >>)
              ELSE << >>) \o AnchorOf(Tail(name))

AnchorsCreated == anchors # NoAnchors

\* C17: the anchor of the entry of the table of contents, of the anchor tag of
\* the section, of a related-sheets link to the sheet and of the metadata's
\* section_in_md is one string, the anchor of the title as described.
C17_OneAnchorPerSheetTitle ==
    AnchorsCreated =>
        /\ anchors.toc = AnchorOf(anchor_name)
        /\ anchors.tag = anchors.toc
        /\ anchors.related = anchors.toc
        /\ anchors.section_in_md = << "#" >> \o anchors.toc

C17_Witness ==
    /\ AnchorsCreated
    /\ anchor_name = << "A", "_", "!" >>
    /\ anchors.section_in_md = << "#", "a", "-" >>

(***************************************************************************)
(* Related-sheets blocks                                                   *)
(***************************************************************************)
\* The document of the run has been merged.
Merged == pc \in { "Writing", "MetadataGeneration", "Done" }

\* The formula cells of the workbook with a sheet-qualified reference for
\* which an edge was recorded, each with the sheet and cell it refers to.
RecordedReferences ==
    { [ from_sheet |-> input_file[i].name, from_cell |-> input_file[i].formulas[k].cell,
        to_sheet   |-> input_file[i].formulas[k].to_sheet,
        to_cell    |-> input_file[i].formulas[k].to_cell ] :
          <<i, k>> \in { p \in (1..Len(input_file)) \X (1..2) :
                           /\ p[2] <= Len(input_file[p[1]].formulas)
                           /\ HasReference(input_file[p[1]].formulas[p[2]])
                           /\ \E j \in 1..Len(cross_references) :
                                 /\ cross_references[j].from_sheet = input_file[p[1]].name
                                 /\ cross_references[j].from_cell
                                        = input_file[p[1]].formulas[p[2]].cell } }

HasEntry(section, direction, name, cell) ==
    \E k \in 1..Len(section.related) :
        /\ section.related[k].direction = direction
        /\ section.related[k].sheet = name
        /\ section.related[k].cell = cell

\* C18: the section of a sheet carries, for every recorded reference that
\* leaves the sheet, an entry naming the referenced sheet and cell as
\* references-to, and for every recorded reference from another sheet to it
\* an entry naming the referencing sheet and cell as referenced-by; it has no
\* related-sheets block exactly when no recorded reference touches the sheet.
C18_RelatedSheetsBlockListsEveryTouchingReference ==
    Merged =>
        \A i \in 1..Len(md_content.sections) :
            LET section == md_content.sections[i]
            IN  /\ \A r \in RecordedReferences :
                     /\ r.from_sheet = section.name
                          => HasEntry(section, "to", r.to_sheet, r.to_cell)
                     /\ (r.to_sheet = section.name /\ r.from_sheet # section.name)
                          => HasEntry(section, "from", r.from_sheet, r.from_cell)
                /\ section.related = << >>
                     <=> ~\E r \in RecordedReferences :
                            r.from_sheet = section.name \/ r.to_sheet = section.name

(***************************************************************************)
(* Classification and number of the edges of a formula cell                *)
(***************************************************************************)
\* The word stands in the text, upper or lower case.
HasWord(text, word) ==
    \E i \in 0..(Len(text) - Len(word)) :
        \A k \in 1..Len(word) : lower(<< text[i + k] >>) = lower(<< word[k] >>)

Described == ref_entry # NoEntry

\* C19: the type of a cross-reference is sum when its formula holds SUM, else
\* average when it holds AVERAGE or AVG, else count when it holds COUNT, else
\* lookup when it holds VLOOKUP or HLOOKUP, else conditional when it holds IF,
\* else reference, in upper or lower case; '=SUM(Sheet1!A1:A10)' is sum and
\* ='Sales Q1'!B2 is reference.
C19_FirstMatchingRuleClassifies ==
    Described =>
        LET has(str) == HasWord(formula.text, Word(str))
            sum      == has("SUM")
            average  == ~sum /\ (has("AVERAGE") \/ has("AVG"))
            count    == ~sum /\ ~average /\ has("COUNT")
            lookup   == ~sum /\ ~average /\ ~count /\ (has("VLOOKUP") \/ has("HLOOKUP"))
            cond     == ~sum /\ ~average /\ ~count /\ ~lookup /\ has("IF")
        IN  /\ ref_entry.type = "sum" <=> sum
            /\ ref_entry.type = "average" <=> average
            /\ ref_entry.type = "count" <=> count
            /\ ref_entry.type = "lookup" <=> lookup
            /\ ref_entry.type = "conditional" <=> cond
            /\ ref_entry.type = "reference"
                 <=> ~(sum \/ average \/ count \/ lookup \/ cond)
            /\ formula = SumSheet1Formula => ref_entry.type = "sum"
            /\ formula = SalesQ1Formula => ref_entry.type = "reference"

C19_Witness ==
    /\ Described
    /\ formula.text = << "=", "I", "F", "(", "S", "U", "M", "(", "'", "S", "h", "e", "e", "t", "1", "'", "!", "A", "1", ")", ",", "1", ",", "0", ")" >>
    /\ ref_entry.type = "sum"

Analyzed == ref_info.status # "pending"

\* The number of sheet qualifiers in the text.
Qualifiers(text) == Cardinality({ i \in 1..Len(text) : text[i] = "!" })

IsSuffix(s, text) ==
    Len(s) <= Len(text) /\ SubSeq(text, Len(text) - Len(s) + 1, Len(text)) = s

\* C20: a formula cell yields at most one edge; a formula with several
\* sheet-qualified references yields one edge, whose destination is the
\* sheet and cell of its first reference, and a formula without '!' yields
\* none.
C20_OneEdgeForTheFirstReference ==
    Analyzed =>
        /\ Len(found_references) <= 1
        /\ Qualifiers(formula.text) >= 2 =>
             /\ Len(found_references) = 1
             /\ found_references[1].to_cell = formula.to_cell
             /\ IsSuffix(formula.to_sheet, found_references[1].to_sheet)
        /\ Qualifiers(formula.text) = 0 => found_references = << >>

(***************************************************************************)
(* The estimated number of chunks                                          *)
(***************************************************************************)
Estimated == chunk_estimate # NoEstimate

\* The quotient of two naturals, rounded up.
CeilDiv(a, b) == (a + b - 1) \div b

\* C21: the estimated chunk count of the result and of the metadata is the
\* estimated token count, 0.3 times the length of the document, divided by
\* the chunk size and rounded up, and at least 1.
C21_ChunksAreTokensOverChunkSizeRoundedUp ==
    Estimated =>
        LET chunks == Max({ 1, CeilDiv(3 * doc_len, 10 * target_chunk) })
        IN  /\ chunk_estimate.result = chunks
            /\ chunk_estimate.metadata = chunks

(***************************************************************************)
(* Counts of a fragment                                                    *)
(***************************************************************************)
\* The blocks of the content of a fragment that satisfy the test.
TablesIn(fragment) ==
    Cardinality({ i \in 1..Len(fragment.content) : fragment.content[i].kind = "table" })
ImagesIn(fragment) ==
    Cardinality({ i \in 1..Len(fragment.content) : fragment.content[i].kind = "image" })

\* C22: for every fragment, tables_count is the number of tables in its
\* content and images_count the number of images referenced in it, also when
\* the assembly of the sheet failed.
C22_CountsReflectTheContent ==
    \A i \in 1..Len(sheets_data) :
        /\ sheets_data[i].tables_count = TablesIn(sheets_data[i])
        /\ sheets_data[i].images_count = ImagesIn(sheets_data[i])

(***************************************************************************)
(* Properties of ImageParser.extract_images                                *)
(***************************************************************************)
\* The positions of the images of a sheet that can be saved, in order.
OkPositions(images) ==
    SelectSeq([ p \in 1..Len(images) |-> p ], LAMBDA p : images[p] = "ok")

\* The number of images of the sheets before sheet s.
RECURSIVE PicturesBefore(_)
PicturesBefore(s) ==
    IF s <= 1 THEN 0 ELSE PicturesBefore(s - 1) + Len(pictures[s - 1])

\* C23: an image that cannot be decoded or saved is skipped alone: no
\* exception leaves extract_images, every other image of the sheet is
\* emitted, in the order of the sheet, and the failed image is in neither
\* images_md nor images_info (whose length is images_count).
C23_BrokenImageSkippedAlone ==
    \A s \in 1..Len(parsed_pictures) :
        LET r   == parsed_pictures[s]
            oks == OkPositions(pictures[s])
        IN  /\ ~r.raised
            /\ Len(r.images_md) = Len(oks)
            /\ Len(r.images_info) = Len(oks)
            /\ \A j \in 1..Len(r.images_md) :
                   j <= Len(oks) => r.images_md[j].ref = PicturesBefore(s) + oks[j]

C23_Witness ==
    \E s \in 1..Len(parsed_pictures) :
        /\ \E p, q \in 1..Len(pictures[s]) :
               p < q /\ pictures[s][p] = "broken" /\ pictures[s][q] = "ok"
        /\ Len(parsed_pictures[s].images_md) >= 1

\* The number of images extracted from the sheets before sheet s.
RECURSIVE ExtractedBefore(_)
ExtractedBefore(s) ==
    IF s <= 1 THEN 0
    ELSE ExtractedBefore(s - 1) + Len(parsed_pictures[s - 1].images_info)

\* The images extracted so far, as (sheet, place in the sheet's images_info).
Extracted ==
    { << s, j >> \in (1..Len(parsed_pictures)) \X (1..(MaxPictures + 1)) :
          j <= Len(parsed_pictures[s].images_info) }

InfoOf(e) == parsed_pictures[e[1]].images_info[e[2]]

\* C28: the k-th image extracted in a conversion has index k and the
\* filename built from k; indices strictly increase from sheet to sheet and
\* no two extracted images share a filename.
C28_ExtractedImagesNumberedSequentially ==
    /\ \A e \in Extracted :
           /\ InfoOf(e).index = ExtractedBefore(e[1]) + e[2]
           /\ InfoOf(e).filename = image_filename(ExtractedBefore(e[1]) + e[2])
    /\ \A e, f \in Extracted :
           /\ (e[1] < f[1] \/ (e[1] = f[1] /\ e[2] < f[2]))
                  => InfoOf(e).index < InfoOf(f).index
           /\ e # f => InfoOf(e).filename # InfoOf(f).filename

(***************************************************************************)
(* The two-sheet scenario                                                  *)
(***************************************************************************)
\* The cells of the Summary sheet of the workbook converted.
SummaryOfInput == input_file[2].cells

ScenarioSectionsAndEdge ==
    /\ Len(out_file.md.sections) = 2
    /\ Len(out_file.md.toc) = 2
    /\ Len(result.metadata.cross_references) = 1
    /\ result.metadata.cross_references[1].type = "sum"

Formatted == formatted # NotFormatted

AsDate == formatted.kind \in { "date", "datetime" }

\* The format code holds a thousands-separator or a fixed-decimal token and
\* neither a percent nor a currency sign.
SeparatorOrDecimalCode(format_str) ==
    /\ \/ Contains(format_str, << "#", ",", "#", "#", "0" >>)
       \/ Contains(format_str, << "0", ".", "0", "0" >>)
    /\ ~In("%", format_str) /\ ~In("yen", format_str) /\ ~In("en", format_str)

\* C25: a numeric value whose format code holds a thousands-separator or
\* fixed-decimal token is rendered with as many decimal places as the code
\* has '0' after its decimal point, none without a decimal point.
C25_DecimalsFollowTheFormatCode ==
    (Formatted /\ ~AsDate /\ SeparatorOrDecimalCode(format_cell.number_format))
        => formatted.decimals = DecimalsOfCode(format_cell.number_format)

\* C26: a numeric cell whose format displays a time of day only, given as a
\* format code or as a built-in identifier, is not converted to a calendar
\* date, and a numeric cell is converted only when its format displays a date.
C26_TimeOfDayIsNotADate ==
    Formatted =>
        /\ format_cell.class = "time" => ~AsDate
        /\ AsDate => format_cell.class \in { "date", "datetime" }

(***************************************************************************)
(* Links and anchors of the merged document                                *)
(***************************************************************************)
\* The names of the anchor tags the document emits.
EmittedAnchors(md) == { md.sections[i].anchor : i \in 1..Len(md.sections) }

\* The targets of the links of the table of contents and of the
\* related-sheets lists.
TocTargets(md) == { md.toc[i].anchor : i \in 1..Len(md.toc) }
RelatedTargets(md) ==
    UNION { { md.sections[i].related[k].anchor : k \in 1..Len(md.sections[i].related) } :
              i \in 1..Len(md.sections) }

\* C27: in the document of a run every target of a link of the table of
\* contents or of a related-sheets list is the name of an anchor tag the
\* document emits, and no anchor name is emitted for two different sheets.
C27_LinksResolveAndAnchorsAreUnique ==
    FirstRunDone =>
        /\ TocTargets(out_file.md) \subseteq EmittedAnchors(out_file.md)
        /\ RelatedTargets(out_file.md) \subseteq EmittedAnchors(out_file.md)
        /\ \A i, j \in 1..Len(out_file.md.sections) :
               out_file.md.sections[i].name # out_file.md.sections[j].name
                   => out_file.md.sections[i].anchor # out_file.md.sections[j].anchor

(***************************************************************************)
(* Properties of HistoryManager                                            *)
(***************************************************************************)
\* C29: after any calls of add_record, delete_record and clear_all no two
\* records of the history share an id, the history holds at most
\* HistoryLimit records, and the records are ordered newest first.
C29_HistoryIdsUniqueBoundedNewestFirst ==
    /\ \A i, j \in 1..Len(history) : i # j => history[i].id # history[j].id
    /\ Len(history) <= HistoryLimit
    /\ \A i \in 1..(Len(history) - 1) : history[i].timestamp > history[i + 1].timestamp

(***************************************************************************)
(* Properties of BatchProcessor                                            *)
(***************************************************************************)
\* The input files of the call made, in input order.
BatchFiles ==
    IF batch_call = "directory"
    THEN Sorted({ batch_input[i] : i \in 1..Len(batch_input) })
    ELSE batch_input

\* C30: process_files and process_directory return one result per input
\* file, in input order; a file whose conversion raises has a result with
\* status 'error' and the message, every other file, also after it, is
\* converted; get_summary then reports the number of results as total, and
\* total = success + failed.
C30_OneResultPerFileAndSummaryAddsUp ==
    /\ batch_pc # "ready" =>
          /\ Len(batch_results) = Len(BatchFiles)
          /\ \A i \in 1..Len(batch_results) :
                i <= Len(BatchFiles) =>
                   /\ batch_results[i].input_file = BatchFiles[i]
                   /\ batch_results[i].status =
                          IF batch_disk[BatchFiles[i]] = "broken" THEN "error" ELSE "success"
                   /\ batch_results[i].status = "error"
                          => batch_results[i].error_message = "cannot load"
    /\ batch_pc = "summarised" =>
          /\ batch_summary.total = Len(batch_results)
          /\ batch_summary.total = batch_summary.success + batch_summary.failed
          /\ batch_summary.success = CountOf(batch_results, "success")

C30_Witness ==
    /\ batch_pc = "summarised"
    /\ Len(batch_results) = 3
    /\ batch_results[1].status = "error"
    /\ batch_results[2].status = "success"
    /\ batch_summary.failed = 1

====
